---- MODULE Spec2Model ----
(***************************************************************************)
(* A model of the open-gateway reverse proxy: the API-key selector         *)
(* (src/src/api_key/mod.rs), the route matcher and rewriter                *)
(* (src/src/proxy/mod.rs), the access guard and the reload orchestrator    *)
(* (src/src/main.rs).                                                      *)
(*                                                                         *)
(* Text is modelled as a sequence of text atoms: an atom is one character  *)
(* ("/", "&", "=", "a", ...) or a fixed literal that the code only ever    *)
(* compares as a whole.                                                    *)
(***************************************************************************)
EXTENDS Integers, Sequences, FiniteSets, Bags, TLC

VARIABLES
    \* ---- key selectors (api_key/mod.rs) ----
    pool_keys,          \* pool name -> ApiKeyPool.keys (key, weight, enabled), declaration order
    pool_strategy,      \* pool name -> ApiKeyPool.strategy
    round_robin_index,  \* selector -> ApiKeySelector.round_robin_index
    call_pc,            \* caller -> "idle" | "fetched" (between fetch_add and the return)
    call_val,           \* caller -> the value its fetch_add returned
    fetch_log,          \* pool name -> values handed out by fetch_add, in order
    pick_log,           \* pool name -> keys returned by get_key, in order of return
    overlapped,         \* pool name -> some get_key began while another was in progress
    weight_drawn,       \* selector -> the random_weight last drawn by get_weighted_with_name (-1: none)
    \* ---- watch-mode orchestrator (main.rs) ----
    file,               \* the content of the configuration file
    fs_events,          \* events queued in the watcher's mpsc channel
    changes,            \* number of file changes made so far
    sig_val,            \* the value held by the watch channel (shutdown signal)
    sig_ver,            \* the version of the watch channel (one per successful send)
    orch_pc,            \* where start_server / run_servers stands
    orch_seen,          \* version last seen by start_server's shutdown_rx
    run_seen,           \* version last seen by run_servers' shutdown_rx
    gen,                \* number of load cycles that spawned listeners
    tasks,              \* the spawned listener tasks, in spawn order (signalled: a reload
                        \* signal was sent since the task accepts, and it accepts still)
    err_kind,           \* why run_servers last returned Err: "none" | "config" | "bind"
    last_signalled,     \* the content the watcher validated and signalled, "none" once the file changes again
    serving_gen,        \* the newest load cycle whose listeners were all accepting at once (0: none)
    gen_metrics,        \* load cycle -> the GatewayMetrics its run_servers call created
    \* ---- one request on a listener (main.rs, proxy/mod.rs) ----
    guard,              \* config.master_access_token: enabled, header_name, tokens
    route_configs,      \* config.routes as declared (RouteConfig), for the listener
    routes,             \* ProxyService.routes: the routes compiled for the listener
    pool_query_param,   \* pool name -> ApiKeyPool.query_param_name (an Option)
    pool_header_name,   \* pool name -> ApiKeyPool.header_name
    req,                \* the incoming request: method, path, query, headers
    req_pc,             \* "arrived" | "passed" | "rejected" | "proxy" | "upstream" | "done"
    handler,            \* the handler the request reached: "none" | "health" | "metrics" | "proxy"
    resp,               \* the response sent to the client (status 0: none yet)
    fwd,                \* the request built for the upstream (route 0: none)
    metrics,            \* ProxyService.metrics: the GatewayMetrics of the listener
    \* ---- loading a configuration (config/mod.rs, main.rs) ----
    config,             \* the GatewayConfig parsed from the file
    load_pc,            \* "parsed" | "failed" | "loaded" | "listening"
    load_err,           \* the error validate returned ("": none)
    listeners           \* the listeners run_servers builds: bind address and routes

selVars == <<pool_keys, pool_strategy, round_robin_index, call_pc, call_val, fetch_log, pick_log,
             overlapped, weight_drawn>>

relVars == <<file, fs_events, changes, sig_val, sig_ver, orch_pc, orch_seen, run_seen,
             gen, tasks, err_kind, last_signalled, serving_gen, gen_metrics>>

reqVars == <<guard, route_configs, routes, pool_query_param, pool_header_name, req, req_pc,
             handler, resp, fwd, metrics>>

cfgVars == <<config, load_pc, load_err, listeners>>

vars == <<selVars, relVars, reqVars, cfgVars>>

----------------------------------------------------------------------------
(* Bounds *)

\* Total number of get_key calls made on the selectors in one behaviour.
MaxPicks == 4

\* Number of changes made to the configuration file in one behaviour.
MaxChanges == 2

\* Requests in flight on one listener at a time.
MaxInflight == 1

\* Longest token list of the access guard.
MaxTokens == 2

\* Longest route pattern and longest request path, in atoms.
MaxPatternLen == 4

MaxPathLen == 4

\* Longest list of declared routes.
MaxRoutes == 2

\* Most parameters in a query string.
MaxParams == 3

\* Most header lines in a request.
MaxHeaders == 2

\* Requests accepted by the listeners in one behaviour of the orchestrator.
MaxRequests == 1

\* Longest servers list of a configuration.
MaxServers == 2

----------------------------------------------------------------------------
(* Helpers on sequences *)

RECURSIVE CountOf(_, _)
\* Number of occurrences of x in the sequence s.
CountOf(s, x) ==
    IF s = <<>> THEN 0
    ELSE (IF Head(s) = x THEN 1 ELSE 0) + CountOf(Tail(s), x)

----------------------------------------------------------------------------
(* Text helpers: Rust's str operations on sequences of atoms *)

\* Option<T>
None == [some |-> FALSE, val |-> <<>>]

Some(v) == [some |-> TRUE, val |-> v]

\* str::starts_with
StartsWith(s, p) == Len(p) <= Len(s) /\ SubSeq(s, 1, Len(p)) = p

\* str::ends_with
EndsWith(s, p) == Len(p) <= Len(s) /\ SubSeq(s, Len(s) - Len(p) + 1, Len(s)) = p

\* &s[..s.len() - n]
DropLast(s, n) == SubSeq(s, 1, Len(s) - n)

\* str::strip_prefix
StripPrefix(s, p) == IF StartsWith(s, p) THEN Some(SubSeq(s, Len(p) + 1, Len(s))) ELSE None

RECURSIVE TrimEndMatches(_, _)
\* str::trim_end_matches(c)
TrimEndMatches(s, c) ==
    IF s # <<>> /\ s[Len(s)] = c THEN TrimEndMatches(DropLast(s, 1), c) ELSE s

\* str::contains(c)
Contains(s, c) == \E i \in 1..Len(s) : s[i] = c

\* The position of the first c in s, 0 when there is none.
FirstIndex(s, c) ==
    IF Contains(s, c) THEN CHOOSE i \in 1..Len(s) : s[i] = c /\ \A j \in 1..(i - 1) : s[j] # c
    ELSE 0

RECURSIVE Split(_, _)
\* str::split(c): the pieces between the separators (one empty piece for "").
Split(s, c) ==
    LET i == FirstIndex(s, c)
    IN IF i = 0 THEN <<s>>
       ELSE <<SubSeq(s, 1, i - 1)>> \o Split(SubSeq(s, i + 1, Len(s)), c)

RECURSIVE Join(_, _)
\* [&str]::join(c)
Join(pieces, c) ==
    IF pieces = <<>> THEN <<>>
    ELSE IF Len(pieces) = 1 THEN pieces[1]
    ELSE pieces[1] \o <<c>> \o Join(Tail(pieces), c)

\* All sequences over S of length at most n.
SeqsUpTo(S, n) == UNION {[1..k -> S] : k \in 0..n}

----------------------------------------------------------------------------
(* API-key selector: src/src/api_key/mod.rs *)

\* The pools of the configuration (api_key_pools keys).
PoolNames == {"pa", "pb"}

\* The concurrent request tasks that call get_key, each on behalf of a route
\* compiled for one listener.
Callers == {"c1", "c2", "c3"}

\* RouteConfig.api_key_pool of the route each caller serves: c1 and c2 are
\* routes (on any listeners) naming pool "pa", c3 names pool "pb".
RoutePool(c) == IF c = "c3" THEN "pb" ELSE "pa"

\* The declared keys of a pool, in declaration order, with every choice of
\* enabled flags.
KeyValues == <<"k1", "k2", "k3">>

KeyConfigs ==
    { [i \in 1..3 |-> [key |-> KeyValues[i], weight |-> 1, enabled |-> en[i]]] : en \in [1..3 -> BOOLEAN] }

\* The width of AtomicUsize, scaled down from 2^64 to a power of two TLC
\* can compute with.
UsizeModulus == 2^30

\* A mutant: the disabled keys stay in the selector.
SelectorKeysUnfiltered(pool) == pool

RECURSIVE SelectorKeys(_)
\* ApiKeySelector::new: keys = pool.keys.iter().filter(|k| k.enabled)
SelectorKeys(pool) ==
    IF pool = <<>> THEN <<>>
    ELSE IF Head(pool).enabled THEN <<Head(pool)>> \o SelectorKeys(Tail(pool))
    ELSE SelectorKeys(Tail(pool))

\* routes_from_config: api_key_selectors.get(name).cloned() -- the route holds
\* the Arc of the one selector created for the pool, so the selector a caller
\* uses is identified by the pool name.
SelectorOf(c) == RoutePool(c)

SelectorIds == PoolNames

\* A mutant: the increment is lost (a plain load in place of fetch_add).
FetchAddLost(counter) == [value |-> counter, next |-> counter]

\* AtomicUsize::fetch_add(1, SeqCst): returns the previous value, stores the
\* successor, wrapping at the width of usize.
FetchAdd(counter) == [value |-> counter, next |-> (counter + 1) % UsizeModulus]

\* A mutant: the index is taken from the incremented value.
RoundRobinSlotAfter(value, n) == (value + 1) % n

\* get_round_robin_with_name: index = fetched value % self.keys.len()
RoundRobinSlot(value, n) == value % n

TotalPicks ==
    LET RECURSIVE Sum(_)
        Sum(S) == IF S = {} THEN 0
                  ELSE LET p == CHOOSE x \in S : TRUE
                       IN Len(pick_log[p]) + Sum(S \ {p})
    IN Sum(PoolNames) + Cardinality({c \in Callers : call_pc[c] = "fetched"})

\* The selectors at rest, for the specifications that do not exercise them.
IdleSel ==
    /\ pool_keys = [p \in PoolNames |-> [i \in 1..3 |-> [key |-> KeyValues[i], weight |-> 1, enabled |-> TRUE]]]
    /\ pool_strategy = [p \in PoolNames |-> "round_robin"]
    /\ round_robin_index = [s \in SelectorIds |-> 0]
    /\ weight_drawn = [s \in SelectorIds |-> -1]
    /\ call_pc = [c \in Callers |-> "idle"]
    /\ call_val = [c \in Callers |-> 0]
    /\ fetch_log = [p \in PoolNames |-> <<>>]
    /\ pick_log = [p \in PoolNames |-> <<>>]
    /\ overlapped = [p \in PoolNames |-> FALSE]

InitSel ==
    /\ pool_keys \in [PoolNames -> KeyConfigs]
    /\ pool_strategy = [p \in PoolNames |-> "round_robin"]
    /\ round_robin_index = [s \in SelectorIds |-> 0]
    /\ weight_drawn = [s \in SelectorIds |-> -1]
    /\ call_pc = [c \in Callers |-> "idle"]
    /\ call_val = [c \in Callers |-> 0]
    /\ fetch_log = [p \in PoolNames |-> <<>>]
    /\ pick_log = [p \in PoolNames |-> <<>>]
    /\ overlapped = [p \in PoolNames |-> FALSE]

\* The selectors after round_robin_index has been incremented up to the last
\* values of its type: the counter is one or two picks away from wrapping.
InitWrap ==
    /\ pool_keys \in [PoolNames -> KeyConfigs]
    /\ pool_strategy = [p \in PoolNames |-> "round_robin"]
    /\ round_robin_index \in [SelectorIds -> {UsizeModulus - 2, UsizeModulus - 1}]
    /\ weight_drawn = [s \in SelectorIds |-> -1]
    /\ call_pc = [c \in Callers |-> "idle"]
    /\ call_val = [c \in Callers |-> 0]
    /\ fetch_log = [p \in PoolNames |-> <<>>]
    /\ pick_log = [p \in PoolNames |-> <<>>]
    /\ overlapped = [p \in PoolNames |-> FALSE]

\* ApiKeyStrategy
Strategies == {"round_robin", "random", "weight"}

\* The width of the u32 weights, scaled down from 2^32 so that the sums the
\* code computes can wrap within the bounds.
WeightModulus == 2^3

RECURSIVE TotalWeight(_)
\* ApiKeySelector::new: total_weight = keys.iter().map(|k| k.weight).sum(),
\* wrapping at the width of u32 (a build with overflow checks panics in new
\* instead, and no selector exists).
TotalWeight(keys) ==
    IF keys = <<>> THEN 0
    ELSE (Head(keys).weight + TotalWeight(Tail(keys))) % WeightModulus

\* get_random_with_name: gen_range(0..self.keys.len())
RandomSlots(keys) == 0..(Len(keys) - 1)

RECURSIVE WeightedWalk(_, _, _, _)
\* The loop of get_weighted_with_name from key i on (1-based), with the
\* fallback to the last key.
WeightedWalk(keys, i, cumulative_weight, random_weight) ==
    IF i > Len(keys) THEN Len(keys) - 1
    ELSE LET c == (cumulative_weight + keys[i].weight) % WeightModulus
         IN IF random_weight < c THEN i - 1
            ELSE WeightedWalk(keys, i + 1, c, random_weight)

\* get_weighted_with_name: the values gen_range(0..total_weight) can draw;
\* -1 stands for no draw, when total_weight is 0.
WeightedDraws(keys) == IF TotalWeight(keys) = 0 THEN {-1} ELSE 0..(TotalWeight(keys) - 1)

\* get_weighted_with_name: the slots reached with the draw r.
WeightedSlotsOf(keys, r) == IF r = -1 THEN RandomSlots(keys) ELSE {WeightedWalk(keys, 1, 0, r)}

\* get_weighted_with_name: the slots the draw can give.
WeightedSlots(keys) ==
    IF TotalWeight(keys) = 0 THEN RandomSlots(keys)
    ELSE {WeightedWalk(keys, 1, 0, r) : r \in 0..(TotalWeight(keys) - 1)}

\* get_key_with_name up to and including the fetch_add of
\* get_round_robin_with_name: an empty selector returns None at once.
GetKeyFetch(c) ==
    LET p == RoutePool(c)
        s == SelectorOf(c)
        keys == SelectorKeys(pool_keys[p])
        fa == FetchAdd(round_robin_index[s])
    IN /\ call_pc[c] = "idle"
       /\ TotalPicks < MaxPicks
       /\ IF keys = <<>>
          THEN /\ pick_log' = [pick_log EXCEPT ![p] = Append(@, "none")]
               /\ UNCHANGED <<round_robin_index, call_pc, call_val, fetch_log, overlapped>>
          ELSE /\ pool_strategy[p] = "round_robin"
               /\ round_robin_index' = [round_robin_index EXCEPT ![s] = fa.next]
               /\ call_val' = [call_val EXCEPT ![c] = fa.value]
               /\ call_pc' = [call_pc EXCEPT ![c] = "fetched"]
               /\ fetch_log' = [fetch_log EXCEPT ![p] = Append(@, fa.value)]
               /\ overlapped' = [overlapped EXCEPT ![p] =
                     @ \/ \E d \in Callers \ {c} : RoutePool(d) = p /\ call_pc[d] = "fetched"]
               /\ UNCHANGED pick_log
       /\ UNCHANGED <<pool_keys, pool_strategy, weight_drawn>>
       /\ UNCHANGED <<relVars, reqVars, cfgVars>>

\* The rest of get_round_robin_with_name: index the enabled keys and return.
GetKeyReturn(c) ==
    LET p == RoutePool(c)
        keys == SelectorKeys(pool_keys[p])
    IN /\ call_pc[c] = "fetched"
       /\ pick_log' = [pick_log EXCEPT
              ![p] = Append(@, keys[RoundRobinSlot(call_val[c], Len(keys)) + 1].key)]
       /\ call_pc' = [call_pc EXCEPT ![c] = "idle"]
       /\ UNCHANGED <<pool_keys, pool_strategy, round_robin_index, call_val, fetch_log,
                       overlapped, weight_drawn>>
       /\ UNCHANGED <<relVars, reqVars, cfgVars>>

\* get_key_with_name on a selector with keys under ApiKeyStrategy::Random.
GetKeyRandom(c) ==
    LET p == RoutePool(c)
        keys == SelectorKeys(pool_keys[p])
    IN /\ call_pc[c] = "idle"
       /\ TotalPicks < MaxPicks
       /\ keys # <<>>
       /\ pool_strategy[p] = "random"
       /\ \E index \in RandomSlots(keys) :
             pick_log' = [pick_log EXCEPT ![p] = Append(@, keys[index + 1].key)]
       /\ UNCHANGED <<pool_keys, pool_strategy, round_robin_index, call_pc, call_val,
                       fetch_log, overlapped, weight_drawn>>
       /\ UNCHANGED <<relVars, reqVars, cfgVars>>

\* get_key_with_name on a selector with keys under ApiKeyStrategy::Weight.
GetKeyWeighted(c) ==
    LET p == RoutePool(c)
        keys == SelectorKeys(pool_keys[p])
    IN /\ call_pc[c] = "idle"
       /\ TotalPicks < MaxPicks
       /\ keys # <<>>
       /\ pool_strategy[p] = "weight"
       /\ \E r \in WeightedDraws(keys) :
             \E index \in WeightedSlotsOf(keys, r) :
                /\ pick_log' = [pick_log EXCEPT ![p] = Append(@, keys[index + 1].key)]
                /\ weight_drawn' = [weight_drawn EXCEPT ![SelectorOf(c)] = r]
       /\ UNCHANGED <<pool_keys, pool_strategy, round_robin_index, call_pc, call_val,
                       fetch_log, overlapped>>
       /\ UNCHANGED <<relVars, reqVars, cfgVars>>

\* The weights of the declared keys: none, the default, and the largest.
PickWeights == {0, 1, WeightModulus - 1}

\* Pool "pa" with every choice of enabled flags and weights; pool "pb" with
\* one key.
PickKeyConfigs ==
    { [i \in 1..3 |-> [key |-> KeyValues[i], weight |-> w[i], enabled |-> en[i]]] :
        en \in [1..3 -> BOOLEAN], w \in [1..3 -> PickWeights] }

InitPick ==
    /\ \E ks \in PickKeyConfigs :
          pool_keys = [p \in PoolNames |->
                          IF p = "pa" THEN ks
                          ELSE <<[key |-> "k9", weight |-> 0, enabled |-> TRUE]>>]
    /\ pool_strategy \in [PoolNames -> Strategies]
    /\ round_robin_index = [s \in SelectorIds |-> 0]
    /\ weight_drawn = [s \in SelectorIds |-> -1]
    /\ call_pc = [c \in Callers |-> "idle"]
    /\ call_val = [c \in Callers |-> 0]
    /\ fetch_log = [p \in PoolNames |-> <<>>]
    /\ pick_log = [p \in PoolNames |-> <<>>]
    /\ overlapped = [p \in PoolNames |-> FALSE]

NextSel ==
    \/ \E c \in Callers : GetKeyFetch(c)
    \/ \E c \in Callers : GetKeyReturn(c)

\* get_key on selectors of every strategy.
NextPick ==
    \/ \E c \in Callers : GetKeyFetch(c)
    \/ \E c \in Callers : GetKeyReturn(c)
    \/ \E c \in Callers : GetKeyRandom(c)
    \/ \E c \in Callers : GetKeyWeighted(c)

----------------------------------------------------------------------------
(* Metrics: src/src/metrics/mod.rs *)

\* GatewayMetrics::new: a fresh registry, every counter at zero.
\* requests_total is the bag of its observations by label set.
NewMetrics ==
    [requests_total |-> EmptyBag, total_requests |-> 0, total_errors |-> 0,
     api_key_usage_total |-> EmptyBag]

\* Atoms made of ASCII digits, and of ASCII hex digits.
AsciiDigitAtoms == {"7", "42"}

AsciiHexDigitAtoms == AsciiDigitAtoms \cup {"deadbeef"}

\* The number of characters of an atom of hex digits.
AtomLen(a) == IF a = "deadbeef" THEN 8 ELSE IF a = "42" THEN 2 ELSE 1

RECURSIVE PartLen(_)
PartLen(part) == IF part = <<>> THEN 0 ELSE AtomLen(Head(part)) + PartLen(Tail(part))

\* normalize_path, one part: digits become ":id", eight or more hex digits
\* ":uuid".
NormalizePart(part) ==
    IF part # <<>> /\ \A i \in 1..Len(part) : part[i] \in AsciiDigitAtoms THEN <<":id">>
    ELSE IF (\A i \in 1..Len(part) : part[i] \in AsciiHexDigitAtoms) /\ PartLen(part) >= 8
    THEN <<":uuid">>
    ELSE part

\* normalize_path
NormalizePath(path) ==
    LET parts == Split(path, "/")
    IN Join([i \in 1..Len(parts) |-> NormalizePart(parts[i])], "/")

\* A mutant: the observation is lost.
RecordRequestDropped(m, method, path, status) == m

\* record_request: one observation of requests_total under (method,
\* normalized path, status), total_requests + 1, total_errors + 1 from 400 on.
RecordRequest(m, method, path, status) ==
    [requests_total |-> m.requests_total
                         (+) SetToBag({[method |-> method, path |-> NormalizePath(path),
                                        status |-> status]}),
     total_requests |-> m.total_requests + 1,
     total_errors |-> m.total_errors + (IF status >= 400 THEN 1 ELSE 0),
     api_key_usage_total |-> m.api_key_usage_total]

\* record_api_key_usage: one observation of api_key_usage_total under
\* (api_key, route).  No handler calls it.
RecordApiKeyUsage(m, api_key, route) ==
    [m EXCEPT !.api_key_usage_total = @ (+) SetToBag({[api_key |-> api_key, route |-> route]})]

----------------------------------------------------------------------------
(* Watch-mode orchestrator: src/src/main.rs *)

\* What the configuration file can hold: two valid configurations and a
\* content that GatewayConfig::from_file rejects (unparseable or invalid).
ValidConfigs == {"A", "B"}

FileContents == ValidConfigs \cup {"bad"}

\* config.get_servers() mapped through server_addr_for: the bind addresses of
\* the configuration's listeners, in order.  "A" has one listener, "B" keeps
\* that address and adds a second listener.
ConfigServers(c) == IF c = "A" THEN <<"0.0.0.0:8080">> ELSE <<"0.0.0.0:8080", "0.0.0.0:9090">>

\* routes[0].target of the configuration.
ConfigTarget(c) == IF c = "A" THEN "http://old" ELSE "http://new"

\* tokio::sync::mpsc::channel(10) of watch_config_file.
EventChannelCapacity == 10

\* GatewayConfig::from_file: Ok iff the content parses and validates.
FromFileOk(content) == content \in ValidConfigs

\* The receivers of the watch channel that are alive: start_server's
\* shutdown_rx (from subscribe() to the end of the loop iteration) and the
\* clone each listener task holds until its shutdown future completes or its
\* bind fails.
ReceiverCount ==
    (IF orch_pc = "subscribe" THEN 0 ELSE 1)
    + Cardinality({i \in DOMAIN tasks : tasks[i].st \in {"spawned", "accepting"}})

\* watch::Sender::send(v): fails, leaving the channel untouched, when no
\* receiver is alive; otherwise stores v and advances the version.
SendVal(v) == IF ReceiverCount = 0 THEN sig_val ELSE v

SendVer == IF ReceiverCount = 0 THEN sig_ver ELSE sig_ver + 1

\* The listener tasks run_servers spawns for configuration c, each holding a
\* clone of the shutdown receiver.
SpawnTasks(c, g, seen) ==
    [i \in 1..Len(ConfigServers(c)) |->
        [gen |-> g, cfg |-> c, addr |-> ConfigServers(c)[i], st |-> "spawned",
         seen |-> seen, inflight |-> 0, signalled |-> FALSE]]

RECURSIVE HandlesOf(_, _)
\* The tasks of load cycle g, in spawn order (run_servers' handles).
HandlesOf(ts, g) ==
    IF ts = <<>> THEN <<>>
    ELSE IF Head(ts).gen = g THEN <<Head(ts)>> \o HandlesOf(Tail(ts), g)
    ELSE HandlesOf(Tail(ts), g)

RECURSIVE AwaitHandles(_)
\* `for handle in handles { handle.await??; }`: the handles are awaited in
\* order; the first unfinished one blocks, the first failed one returns Err.
AwaitHandles(hs) ==
    IF hs = <<>> THEN "ok"
    ELSE IF Head(hs).st = "failed" THEN "err"
    ELSE IF Head(hs).st = "done" THEN AwaitHandles(Tail(hs))
    ELSE "pending"

\* Every listener of the newest load cycle is bound and accepting.
AllAccepting(ts, g) ==
    /\ g >= 1
    /\ \A i \in DOMAIN ts : ts[i].gen = g => ts[i].st = "accepting"

InitRel ==
    /\ file \in FileContents
    /\ fs_events = 0
    /\ changes = 0
    /\ sig_val = FALSE
    /\ sig_ver = 0
    /\ orch_pc = "subscribe"
    /\ orch_seen = 0
    /\ run_seen = 0
    /\ gen = 0
    /\ tasks = <<>>
    /\ err_kind = "none"
    /\ last_signalled = "none"
    /\ serving_gen = 0
    /\ gen_metrics = <<>>

\* Requests accepted so far: those recorded and those in flight.
RECURSIVE SumOver(_, _)
SumOver(f, i) == IF i = 0 THEN 0 ELSE f[i] + SumOver(f, i - 1)

RequestsAccepted ==
    SumOver([g \in DOMAIN gen_metrics |-> gen_metrics[g].total_requests], Len(gen_metrics))
    + SumOver([i \in DOMAIN tasks |-> tasks[i].inflight], Len(tasks))

\* The configuration file is written (any content, also the same again); the
\* notify callback try_sends the event and drops it when the channel is full.
FileChange(c) ==
    /\ changes < MaxChanges
    /\ changes' = changes + 1
    /\ file' = c
    /\ fs_events' = IF fs_events < EventChannelCapacity THEN fs_events + 1 ELSE fs_events
    /\ last_signalled' = "none"
    /\ UNCHANGED <<sig_val, sig_ver, orch_pc, orch_seen, run_seen, gen, tasks, err_kind,
                   serving_gen>>
    /\ UNCHANGED gen_metrics
    /\ UNCHANGED <<selVars, reqVars, cfgVars>>

\* watch_config_file: one Modify/Create event of the configuration file is
\* received; the file is validated and, when valid, send(true).
WatcherRecv ==
    /\ fs_events > 0
    /\ fs_events' = fs_events - 1
    /\ IF FromFileOk(file)
       THEN /\ sig_val' = SendVal(TRUE)
            /\ sig_ver' = SendVer
            /\ last_signalled' = IF ReceiverCount = 0 THEN last_signalled ELSE file
            /\ tasks' = [i \in DOMAIN tasks |->
                            IF ReceiverCount # 0 /\ tasks[i].st = "accepting"
                            THEN [tasks[i] EXCEPT !.signalled = TRUE]
                            ELSE tasks[i]]
       ELSE UNCHANGED <<sig_val, sig_ver, last_signalled, tasks>>
    /\ UNCHANGED <<file, changes, orch_pc, orch_seen, run_seen, gen, err_kind,
                   serving_gen>>
    /\ UNCHANGED gen_metrics
    /\ UNCHANGED <<selVars, reqVars, cfgVars>>

\* start_server, top of the loop: shutdown_rx = shutdown_tx.subscribe().
Subscribe ==
    /\ orch_pc = "subscribe"
    /\ orch_seen' = sig_ver
    /\ orch_pc' = "load"
    /\ UNCHANGED <<file, fs_events, changes, sig_val, sig_ver, run_seen, gen, tasks,
                   err_kind, last_signalled, serving_gen>>
    /\ UNCHANGED gen_metrics
    /\ UNCHANGED <<selVars, reqVars, cfgVars>>

\* run_servers up to the select!: from_file (Err returns at once), then the
\* selectors and GatewayMetrics::new(), then one task is spawned per server.
LoadAndSpawn ==
    /\ orch_pc = "load"
    /\ IF FromFileOk(file)
       THEN /\ gen' = gen + 1
            /\ gen_metrics' = Append(gen_metrics, NewMetrics)
            /\ tasks' = tasks \o SpawnTasks(file, gen + 1, orch_seen)
            /\ run_seen' = orch_seen
            /\ orch_pc' = "select"
            /\ err_kind' = "none"
       ELSE /\ orch_pc' = "err"
            /\ err_kind' = "config"
            /\ UNCHANGED <<gen, tasks, run_seen, gen_metrics>>
    /\ UNCHANGED <<file, fs_events, changes, sig_val, sig_ver, orch_seen, last_signalled,
                   serving_gen>>
    /\ UNCHANGED <<selVars, reqVars, cfgVars>>

\* run_servers, first arm of the select!: changed() resolves when the version
\* differs from the one seen, and marks the newest version seen; the loop
\* breaks when the value borrowed is true and run_servers returns Ok without
\* awaiting the handles.
SelectShutdown ==
    /\ orch_pc = "select"
    /\ sig_ver # run_seen
    /\ run_seen' = sig_ver
    /\ orch_pc' = IF sig_val THEN "check" ELSE "select"
    /\ UNCHANGED <<file, fs_events, changes, sig_val, sig_ver, orch_seen, gen, tasks,
                   err_kind, last_signalled, serving_gen>>
    /\ UNCHANGED gen_metrics
    /\ UNCHANGED <<selVars, reqVars, cfgVars>>

\* run_servers, second arm of the select!: the handles have resolved.
SelectHandles ==
    /\ orch_pc = "select"
    /\ AwaitHandles(HandlesOf(tasks, gen)) # "pending"
    /\ IF AwaitHandles(HandlesOf(tasks, gen)) = "err"
       THEN orch_pc' = "err" /\ err_kind' = "bind"
       ELSE orch_pc' = "check" /\ UNCHANGED err_kind
    /\ UNCHANGED <<file, fs_events, changes, sig_val, sig_ver, orch_seen, run_seen, gen,
                   tasks, last_signalled, serving_gen>>
    /\ UNCHANGED gen_metrics
    /\ UNCHANGED <<selVars, reqVars, cfgVars>>

\* start_server, arm Ok(()): in watch mode, when the signal is true it is
\* reset with send(false) and the loop continues; otherwise the loop breaks
\* and start_server returns.
CheckAndReset ==
    /\ orch_pc = "check"
    /\ IF sig_val
       THEN /\ sig_val' = SendVal(FALSE)
            /\ sig_ver' = SendVer
            /\ orch_pc' = "subscribe"
       ELSE /\ orch_pc' = "exited"
            /\ UNCHANGED <<sig_val, sig_ver>>
    /\ UNCHANGED <<file, fs_events, changes, orch_seen, run_seen, gen, tasks, err_kind,
                   last_signalled, serving_gen>>
    /\ UNCHANGED gen_metrics
    /\ UNCHANGED <<selVars, reqVars, cfgVars>>

\* start_server, arm Err(e): in watch mode, wait for changed(); when the
\* value is true, send(false) and retry.
ErrWait ==
    /\ orch_pc = "err"
    /\ sig_ver # orch_seen
    /\ IF sig_val
       THEN /\ sig_val' = SendVal(FALSE)
            /\ sig_ver' = SendVer
            /\ orch_seen' = sig_ver
            /\ orch_pc' = "subscribe"
       ELSE /\ orch_seen' = sig_ver
            /\ UNCHANGED <<sig_val, sig_ver, orch_pc>>
    /\ UNCHANGED <<file, fs_events, changes, run_seen, gen, tasks, err_kind,
                   last_signalled, serving_gen>>
    /\ UNCHANGED gen_metrics
    /\ UNCHANGED <<selVars, reqVars, cfgVars>>

\* Listener task: TcpListener::bind(addr).await? -- fails when another
\* listener of this process still holds the address.
Bind(i) ==
    /\ tasks[i].st = "spawned"
    /\ LET inUse == \E j \in DOMAIN tasks :
                       j # i /\ tasks[j].st = "accepting" /\ tasks[j].addr = tasks[i].addr
           ts == [tasks EXCEPT ![i].st = IF inUse THEN "failed" ELSE "accepting"]
       IN /\ tasks' = ts
          /\ serving_gen' = IF AllAccepting(ts, gen) THEN gen ELSE serving_gen
    /\ UNCHANGED <<file, fs_events, changes, sig_val, sig_ver, orch_pc, orch_seen, run_seen,
                   gen, err_kind, last_signalled>>
    /\ UNCHANGED gen_metrics
    /\ UNCHANGED <<selVars, reqVars, cfgVars>>

\* Listener task, the graceful-shutdown future: changed() resolves, the
\* newest version is marked seen and the current value is borrowed; when it is
\* true the listener stops accepting and closes its socket, otherwise it
\* waits for the next change.
ObserveSignal(i) ==
    /\ tasks[i].st = "accepting"
    /\ sig_ver # tasks[i].seen
    /\ tasks' = [tasks EXCEPT ![i].seen = sig_ver,
                              ![i].st = IF sig_val THEN "draining" ELSE "accepting",
                              ![i].signalled = IF sig_val THEN FALSE ELSE @]
    /\ UNCHANGED <<file, fs_events, changes, sig_val, sig_ver, orch_pc, orch_seen, run_seen,
                   gen, err_kind, last_signalled, serving_gen>>
    /\ UNCHANGED gen_metrics
    /\ UNCHANGED <<selVars, reqVars, cfgVars>>

\* A connection is accepted and its request starts.
Accept(i) ==
    /\ tasks[i].st = "accepting"
    /\ tasks[i].inflight < MaxInflight
    /\ RequestsAccepted < MaxRequests
    /\ tasks' = [tasks EXCEPT ![i].inflight = @ + 1]
    /\ UNCHANGED <<file, fs_events, changes, sig_val, sig_ver, orch_pc, orch_seen, run_seen,
                   gen, err_kind, last_signalled, serving_gen>>
    /\ UNCHANGED gen_metrics
    /\ UNCHANGED <<selVars, reqVars, cfgVars>>

\* A request in flight finishes: its handler records it in the metrics of
\* the load cycle that built the listener.
Complete(i) ==
    /\ tasks[i].inflight > 0
    /\ tasks' = [tasks EXCEPT ![i].inflight = @ - 1]
    /\ \E status \in {200, 502} :
          gen_metrics' = [gen_metrics EXCEPT
              ![tasks[i].gen] = RecordRequest(@, "GET", <<"/">>, status)]
    /\ UNCHANGED <<file, fs_events, changes, sig_val, sig_ver, orch_pc, orch_seen, run_seen,
                   gen, err_kind, last_signalled, serving_gen>>
    /\ UNCHANGED <<selVars, reqVars, cfgVars>>

\* Graceful shutdown ends once no request is in flight: the task returns Ok.
Drained(i) ==
    /\ tasks[i].st = "draining"
    /\ tasks[i].inflight = 0
    /\ tasks' = [tasks EXCEPT ![i].st = "done"]
    /\ UNCHANGED <<file, fs_events, changes, sig_val, sig_ver, orch_pc, orch_seen, run_seen,
                   gen, err_kind, last_signalled, serving_gen>>
    /\ UNCHANGED gen_metrics
    /\ UNCHANGED <<selVars, reqVars, cfgVars>>

\* The steps of the gateway itself (the watcher, the orchestrator, the
\* listener tasks and the requests they serve).
GatewayNext ==
    \/ WatcherRecv
    \/ Subscribe
    \/ LoadAndSpawn
    \/ SelectShutdown
    \/ SelectHandles
    \/ CheckAndReset
    \/ ErrWait
    \/ \E i \in DOMAIN tasks : Bind(i)
    \/ \E i \in DOMAIN tasks : ObserveSignal(i)
    \/ \E i \in DOMAIN tasks : Complete(i)
    \/ \E i \in DOMAIN tasks : Drained(i)

NextReload ==
    \/ \E c \in FileContents : FileChange(c)
    \/ \E i \in DOMAIN tasks : Accept(i)
    \/ GatewayNext

----------------------------------------------------------------------------
(* Route matcher and rewriter: src/src/proxy/mod.rs *)

\* str::to_ascii_lowercase on the method tokens of the model.
AsciiLower(m) ==
    CASE m = "GET" -> "get"
      [] m = "Get" -> "get"
      [] m = "POST" -> "post"
      [] OTHER -> m

\* str::eq_ignore_ascii_case
EqIgnoreAsciiCase(a, b) == AsciiLower(a) = AsciiLower(b)

\* A mutant: the wildcard prefix is compared without the "/" that ends a segment.
PathMatchesAnyPrefix(pattern, path) ==
    IF EndsWith(pattern, <<"/", "*">>)
    THEN StartsWith(path, DropLast(pattern, 2))
    ELSE IF EndsWith(pattern, <<"/">>)
    THEN path = DropLast(pattern, 1) \/ StartsWith(path, pattern)
    ELSE StartsWith(path, pattern)

\* ProxyRoute::path_matches
PathMatches(pattern, path) ==
    IF EndsWith(pattern, <<"/", "*">>)
    THEN LET prefix == DropLast(pattern, 2)
         IN path = prefix \/ StartsWith(path, prefix \o <<"/">>)
    ELSE IF EndsWith(pattern, <<"/">>)
    THEN LET base == DropLast(pattern, 1)
         IN path = base \/ path = pattern \/ StartsWith(path, pattern)
    ELSE path = pattern \/ StartsWith(path, pattern \o <<"/">>)

\* ProxyRoute::matches
RouteMatches(route, path, method) ==
    IF route.methods # <<>>
       /\ ~\E i \in 1..Len(route.methods) : EqIgnoreAsciiCase(route.methods[i], method)
    THEN FALSE
    ELSE PathMatches(route.path_pattern, path)

\* A mutant: the last matching route wins (an rfind in place of find).
FindLastRoute(rs, path, method) ==
    IF \E i \in 1..Len(rs) : RouteMatches(rs[i], path, method)
    THEN CHOOSE i \in 1..Len(rs) :
             /\ RouteMatches(rs[i], path, method)
             /\ \A j \in (i + 1)..Len(rs) : ~RouteMatches(rs[j], path, method)
    ELSE 0

RECURSIVE FindFrom(_, _, _, _)
\* The scan of Iterator::find from position i on.
FindFrom(rs, i, path, method) ==
    IF i > Len(rs) THEN 0
    ELSE IF RouteMatches(rs[i], path, method) THEN i
    ELSE FindFrom(rs, i + 1, path, method)

\* forward: self.routes.iter().find(|r| r.matches(&path, &method)) -- the
\* position of the route found, 0 for None.
FindRoute(rs, path, method) == FindFrom(rs, 1, path, method)

\* ProxyRoute::strip_path_prefix
StripPathPrefix(route, path) ==
    LET pattern == route.path_pattern
    IN IF EndsWith(pattern, <<"/", "*">>)
       THEN LET r == StripPrefix(path, DropLast(pattern, 2))
            IN IF r.some
               THEN (IF r.val = <<>> \/ r.val = <<"/">> THEN <<"/">> ELSE r.val)
               ELSE path
       ELSE IF EndsWith(pattern, <<"/">>)
       THEN LET r == StripPrefix(path, DropLast(pattern, 1))
            IN IF r.some
               THEN (IF r.val = <<>> THEN <<"/">> ELSE r.val)
               ELSE path
       ELSE path

\* ProxyRoute::get_target_url
GetTargetUrl(route, path, query) ==
    LET target_path == IF route.strip_prefix THEN StripPathPrefix(route, path) ELSE path
        base == TrimEndMatches(route.target, "/")
        path_part == IF StartsWith(target_path, <<"/">>)
                     THEN target_path
                     ELSE <<"/">> \o target_path
    IN IF query.some /\ query.val # <<>>
       THEN base \o path_part \o <<"?">> \o query.val
       ELSE base \o path_part

\* The name of the override parameter, compared as a whole by the code.
ApiKeyPoolParam == "api_key_pool"

\* percent_decode_str(..).decode_utf8_lossy() on the atoms of the model:
\* "p%62" is the text "pb" with its second letter percent-encoded.
PercentDecodeAtom(a) == IF a = "p%62" THEN "pb" ELSE a

PercentDecode(s) == [i \in 1..Len(s) |-> PercentDecodeAtom(s[i])]

\* utf8_percent_encode(key, NON_ALPHANUMERIC) on the key values of the model:
\* only the key "s c" holds a character that is not alphanumeric.
PercentEncodeKey(k) == IF k = "s c" THEN "s%20c" ELSE k

\* str::split_once('='): the text before and after the first "=".
SplitOnceEq(pair) ==
    LET i == FirstIndex(pair, "=")
    IN IF i = 0 THEN None
       ELSE Some([key |-> SubSeq(pair, 1, i - 1), value |-> SubSeq(pair, i + 1, Len(pair))])

RECURSIVE ExtractLoopFirstWins(_, _, _)
\* A mutant: the first api_key_pool value is kept, later ones are ignored.
ExtractLoopFirstWins(pairs, api_key_pool, filtered_params) ==
    IF pairs = <<>> THEN [pool |-> api_key_pool, params |-> filtered_params]
    ELSE LET pair == Head(pairs)
             kv == SplitOnceEq(pair)
         IN IF kv.some
            THEN IF kv.val.key = <<ApiKeyPoolParam>>
                 THEN ExtractLoopFirstWins(Tail(pairs),
                          IF api_key_pool.some THEN api_key_pool
                          ELSE Some(PercentDecode(kv.val.value)),
                          filtered_params)
                 ELSE ExtractLoopFirstWins(Tail(pairs), api_key_pool, Append(filtered_params, pair))
            ELSE IF pair # <<ApiKeyPoolParam>>
                 THEN ExtractLoopFirstWins(Tail(pairs), api_key_pool, Append(filtered_params, pair))
                 ELSE ExtractLoopFirstWins(Tail(pairs), api_key_pool, filtered_params)

RECURSIVE ExtractLoop(_, _, _)
\* The loop of extract_api_key_pool_from_query over q.split('&'): the last
\* api_key_pool value (decoded) and the pairs kept.
ExtractLoop(pairs, api_key_pool, filtered_params) ==
    IF pairs = <<>> THEN [pool |-> api_key_pool, params |-> filtered_params]
    ELSE LET pair == Head(pairs)
             kv == SplitOnceEq(pair)
         IN IF kv.some
            THEN IF kv.val.key = <<ApiKeyPoolParam>>
                 THEN ExtractLoop(Tail(pairs), Some(PercentDecode(kv.val.value)), filtered_params)
                 ELSE ExtractLoop(Tail(pairs), api_key_pool, Append(filtered_params, pair))
            ELSE IF pair # <<ApiKeyPoolParam>>
                 THEN ExtractLoop(Tail(pairs), api_key_pool, Append(filtered_params, pair))
                 ELSE ExtractLoop(Tail(pairs), api_key_pool, filtered_params)

\* A mutant: the query is forwarded as it came, only the override is read.
ExtractKeepingQuery(query) ==
    IF ~query.some \/ query.val = <<>> THEN [pool |-> None, query |-> None]
    ELSE [pool |-> ExtractLoop(Split(query.val, "&"), None, <<>>).pool, query |-> query]

\* extract_api_key_pool_from_query
ExtractApiKeyPoolFromQuery(query) ==
    IF ~query.some \/ query.val = <<>> THEN [pool |-> None, query |-> None]
    ELSE LET r == ExtractLoop(Split(query.val, "&"), None, <<>>)
         IN [pool |-> r.pool,
             query |-> IF r.params = <<>> THEN None ELSE Some(Join(r.params, "&"))]

\* The text of a configured pool's name (a key of api_key_selectors).
PoolNameText(p) == <<p>>

\* forward: api_key_pool_override.and_then(|n| self.api_key_selectors.get(n))
\*              .or(route.api_key_selector.as_ref())
\* -- the pool whose selector is used, "none" for no selector.
ResolveSelector(override, route) ==
    IF override.some /\ \E p \in PoolNames : PoolNameText(p) = override.val
    THEN CHOOSE p \in PoolNames : PoolNameText(p) = override.val
    ELSE route.api_key_pool

\* forward, target URL construction: the base URL with the filtered query,
\* and the key appended as a query parameter when the selector has a
\* query_param_name.
BuildTargetUrl(route, path, filtered_query, param_name, key) ==
    LET base_url == GetTargetUrl(route, path, filtered_query)
    IN IF key.some /\ param_name.some
       THEN IF Contains(base_url, "?")
            THEN base_url \o <<"&">> \o param_name.val \o <<"=", PercentEncodeKey(key.val)>>
            ELSE base_url \o <<"?">> \o param_name.val \o <<"=", PercentEncodeKey(key.val)>>
       ELSE base_url

\* config.health.path and config.metrics.path (their defaults).
HealthPath == <<"/", "health">>

MetricsPath == <<"/", "metrics">>

\* A header that is not there.
Absent == [kind |-> "absent", val |-> ""]

\* A header value that is text, and one whose bytes are not visible ASCII
\* (HeaderValue::to_str fails).
TextValue(v) == [kind |-> "text", val |-> v]

OpaqueValue == [kind |-> "opaque", val |-> ""]

\* HeaderName parsing lower-cases the name: HeaderMap lookups ignore case.
LowerHeaderName(n) ==
    CASE n = "X-T" -> "x-t"
      [] n = "Authorization" -> "authorization"
      [] n = "Host" -> "host"
      [] n = "CONNECTION" -> "connection"
      [] n = "X-API-Key" -> "x-api-key"
      [] n = "X-A" -> "x-a"
      [] OTHER -> n

\* HeaderMap::get(name) on the headers of a request, kept in arrival order:
\* the first value received under the name, Absent when there is none.
HeaderGet(headers, name) ==
    LET at == {i \in 1..Len(headers) : LowerHeaderName(headers[i].name) = LowerHeaderName(name)}
    IN IF at = {} THEN Absent
       ELSE headers[CHOOSE i \in at : \A j \in at : i <= j].value

\* master_access_token_guard: headers().get(name).and_then(|v| v.to_str().ok())
\*     .unwrap_or("")
GuardToken(headers, header_name) ==
    LET h == HeaderGet(headers, header_name)
    IN IF h.kind = "text" THEN h.val ELSE ""

\* MasterAccessTokenConfig::validate_token
ValidateToken(g, token) ==
    IF ~g.enabled THEN TRUE
    ELSE IF g.tokens = <<>> THEN FALSE
    ELSE \E i \in 1..Len(g.tokens) : g.tokens[i] = token

\* GatewayConfig::validate, the master access token check.
GuardConfigValid(g) == ~(g.enabled /\ g.tokens = <<>>)

\* HeaderMap::insert on a map kept as a set of (name, value): the value
\* replaces every value the map held under the name.
HeaderInsert(map, name, value) ==
    {e \in map : e.name # name} \cup {[name |-> name, value |-> value]}

\* is_hop_by_hop_header
IsHopByHopHeader(name) ==
    LowerHeaderName(name) \in {"connection", "keep-alive", "proxy-authenticate",
                               "proxy-authorization", "te", "trailers",
                               "transfer-encoding", "upgrade", "host"}

\* str::parse::<HeaderName>: a name with a character that is no token
\* character is rejected, any other is lower-cased.
ParseHeaderName(n) == IF n = "X Key" THEN None ELSE Some(LowerHeaderName(n))

\* str::parse::<HeaderValue>: a value with a control character (or a
\* character beyond ASCII) is rejected.
ParseHeaderValue(v) == IF v = "k\n" THEN None ELSE Some(TextValue(v))

\* extract_host_from_url: the authority of the URL, whose scheme and
\* authority are the first atom of its text.
ExtractHostFromUrl(url) ==
    IF url = <<>> THEN None
    ELSE CASE url[1] = "http://up" -> Some("up")
           [] url[1] = "https://h:8443" -> Some("h:8443")
           [] OTHER -> None

RECURSIVE CopyHeaders(_, _)
\* forward, "Copy headers": every (name, value) of the incoming request that
\* is not hop-by-hop is inserted, in iteration order.
CopyHeaders(incoming, map) ==
    IF incoming = <<>> THEN map
    ELSE LET h == Head(incoming)
         IN IF IsHopByHopHeader(LowerHeaderName(h.name))
            THEN CopyHeaders(Tail(incoming), map)
            ELSE CopyHeaders(Tail(incoming), HeaderInsert(map, LowerHeaderName(h.name), h.value))

\* forward, "Set Host header from target URL".
SetHostHeader(map, target_url) ==
    LET target_host == ExtractHostFromUrl(target_url)
    IN IF target_host.some /\ ParseHeaderValue(target_host.val).some
       THEN HeaderInsert(map, "host", ParseHeaderValue(target_host.val).val)
       ELSE map

RECURSIVE AddCustomHeaders(_, _)
\* forward, "Add custom headers": the entries of route.headers whose name and
\* value parse are inserted (the names of the entries are distinct).
AddCustomHeaders(entries, map) ==
    IF entries = {} THEN map
    ELSE LET e == CHOOSE x \in entries : TRUE
             n == ParseHeaderName(e.name)
             v == ParseHeaderValue(e.value)
         IN AddCustomHeaders(entries \ {e},
                IF n.some /\ v.some THEN HeaderInsert(map, n.val, v.val) ELSE map)

\* forward, "Inject API key as header": only when the selector has no
\* query_param_name, a key was picked, and the header name and the key parse.
InjectKeyHeader(map, pool, param_name, header_name, key) ==
    IF pool # "none" /\ ~param_name.some /\ key.some
       /\ ParseHeaderName(header_name).some /\ ParseHeaderValue(key.val).some
    THEN HeaderInsert(map, ParseHeaderName(header_name).val, ParseHeaderValue(key.val).val)
    ELSE map

\* forward, header construction as a whole.
BuildHeaders(incoming, target_url, route, pool, param_name, header_name, key) ==
    InjectKeyHeader(
        AddCustomHeaders(route.headers, SetHostHeader(CopyHeaders(incoming, {}), target_url)),
        pool, param_name, header_name, key)

NoForward == [route |-> 0, url |-> <<>>, pool |-> "none", key |-> None, headers |-> {}]

NoResponse == [status |-> 0, body |-> ""]

\* The middleware and the router of a listener (run_servers), for one request.
\* master_access_token_guard.
GuardCheck ==
    /\ req_pc = "arrived"
    /\ IF ~guard.enabled
       THEN req_pc' = "passed" /\ UNCHANGED resp
       ELSE IF ValidateToken(guard, GuardToken(req.headers, guard.header_name))
       THEN req_pc' = "passed" /\ UNCHANGED resp
       ELSE /\ req_pc' = "rejected"
            /\ resp' = [status |-> 401, body |-> "Invalid or missing access token"]
    /\ UNCHANGED <<guard, route_configs, routes, pool_query_param, pool_header_name, req, handler,
                   fwd, metrics>>
    /\ UNCHANGED <<selVars, relVars, cfgVars>>

\* The router built in run_servers: route(health.path, get(..)),
\* route(metrics.path, get(..)), fallback(proxy_handler).  get() serves GET
\* and HEAD; another method on a routed path is answered 405 by the method
\* router and does not reach the fallback.
RouteRequest ==
    /\ req_pc = "passed"
    /\ IF req.path \in {HealthPath, MetricsPath}
       THEN IF req.method \in {"GET", "HEAD"}
            THEN /\ handler' = (IF req.path = HealthPath THEN "health" ELSE "metrics")
                 /\ resp' = [status |-> 200,
                             body |-> IF req.path = HealthPath THEN "healthy" ELSE "metrics"]
                 /\ req_pc' = "done"
            ELSE /\ handler' = "none"
                 /\ resp' = [status |-> 405, body |-> ""]
                 /\ req_pc' = "done"
       ELSE /\ handler' = "proxy"
            /\ req_pc' = "proxy"
            /\ UNCHANGED resp
    /\ UNCHANGED <<guard, route_configs, routes, pool_query_param, pool_header_name, req, fwd,
                   metrics>>
    /\ UNCHANGED <<selVars, relVars, cfgVars>>

\* proxy_handler / ProxyService::forward, up to the await of the upstream:
\* find the route (none: 404, recorded), take the pool override out of the
\* query, pick a key, build the URL and the headers, read the body (a failed
\* read: 500, recorded, nothing is sent) and send.
Forward ==
    /\ req_pc = "proxy"
    /\ LET idx == FindRoute(routes, req.path, req.method)
       IN IF idx = 0
          THEN /\ resp' = [status |-> 404, body |-> "No matching route found"]
               /\ fwd' = NoForward
               /\ metrics' = RecordRequest(metrics, req.method, req.path, 404)
               /\ req_pc' = "done"
               /\ UNCHANGED <<round_robin_index, pick_log, fetch_log, weight_drawn>>
          ELSE LET route == routes[idx]
                   ex == ExtractApiKeyPoolFromQuery(req.query)
                   pool == ResolveSelector(ex.pool, route)
                   keys == IF pool = "none" THEN <<>> ELSE SelectorKeys(pool_keys[pool])
                   fa == FetchAdd(IF pool = "none" THEN 0 ELSE round_robin_index[pool])
                   draws == IF keys # <<>> /\ pool_strategy[pool] = "weight"
                            THEN WeightedDraws(keys) ELSE {-1}
               IN \E r \in draws, body_read \in BOOLEAN :
                  LET slots == IF keys = <<>> THEN {}
                               ELSE IF pool_strategy[pool] = "round_robin"
                               THEN {RoundRobinSlot(fa.value, Len(keys))}
                               ELSE IF pool_strategy[pool] = "random" THEN RandomSlots(keys)
                               ELSE WeightedSlotsOf(keys, r)
                  IN
                  \E key \in IF keys = <<>> THEN {None} ELSE {Some(keys[i + 1].key) : i \in slots} :
                  LET
                   param_name == IF pool = "none" THEN None ELSE pool_query_param[pool]
                   header_name == IF pool = "none" THEN "" ELSE pool_header_name[pool]
                   target_url == BuildTargetUrl(route, req.path, ex.query, param_name, key)
                  IN
                  /\ fwd' = [route |-> idx,
                             url |-> target_url,
                             pool |-> pool,
                             key |-> key,
                             headers |-> BuildHeaders(req.headers, target_url, route,
                                                      pool, param_name, header_name, key)]
                  /\ IF body_read
                     THEN /\ req_pc' = "upstream"
                          /\ UNCHANGED <<resp, metrics>>
                     ELSE /\ resp' = [status |-> 500, body |-> "Failed to read request body"]
                          /\ metrics' = RecordRequest(metrics, req.method, req.path, 500)
                          /\ req_pc' = "done"
                  /\ IF key.some /\ pool_strategy[pool] = "round_robin"
                     THEN /\ round_robin_index' = [round_robin_index EXCEPT ![pool] = fa.next]
                          /\ fetch_log' = [fetch_log EXCEPT ![pool] = Append(@, fa.value)]
                          /\ pick_log' = [pick_log EXCEPT ![pool] = Append(@, key.val)]
                     ELSE IF key.some
                     THEN /\ pick_log' = [pick_log EXCEPT ![pool] = Append(@, key.val)]
                          /\ UNCHANGED <<round_robin_index, fetch_log>>
                     ELSE UNCHANGED <<round_robin_index, pick_log, fetch_log>>
                  /\ weight_drawn' = IF key.some /\ pool_strategy[pool] = "weight"
                                      THEN [weight_drawn EXCEPT ![pool] = r]
                                      ELSE weight_drawn
    /\ UNCHANGED <<guard, route_configs, routes, pool_query_param, pool_header_name, req, handler>>
    /\ UNCHANGED <<pool_keys, pool_strategy, call_pc, call_val, overlapped>>
    /\ UNCHANGED <<relVars, cfgVars>>

\* The statuses an upstream answers with.
UpstreamStatuses == {200, 503}

\* forward, after the await of client.request: the upstream answered.  The
\* status is recorded, then the body is collected; a failed collection is
\* answered 502.
UpstreamResponds(status, body_collected) ==
    /\ req_pc = "upstream"
    /\ metrics' = RecordRequest(metrics, req.method, req.path, status)
    /\ resp' = IF body_collected THEN [status |-> status, body |-> "upstream"]
               ELSE [status |-> 502, body |-> "Failed to read response body"]
    /\ req_pc' = "done"
    /\ UNCHANGED <<guard, route_configs, routes, pool_query_param, pool_header_name, req, handler,
                   fwd>>
    /\ UNCHANGED <<selVars, relVars, cfgVars>>

\* forward, after the await of client.request: the client returned an error
\* (connection refused, reset, ...); 502, recorded.
UpstreamFails ==
    /\ req_pc = "upstream"
    /\ metrics' = RecordRequest(metrics, req.method, req.path, 502)
    /\ resp' = [status |-> 502, body |-> "Failed to forward request"]
    /\ req_pc' = "done"
    /\ UNCHANGED <<guard, route_configs, routes, pool_query_param, pool_header_name, req, handler,
                   fwd>>
    /\ UNCHANGED <<selVars, relVars, cfgVars>>

\* The steps the gateway takes by itself on a request.
GatewayReqNext ==
    \/ GuardCheck
    \/ RouteRequest
    \/ Forward

\* The gateway's steps and the upstream's: an upstream that stays silent
\* takes none.
NextReq ==
    \/ GatewayReqNext
    \/ \E status \in UpstreamStatuses, body_collected \in BOOLEAN :
          UpstreamResponds(status, body_collected)
    \/ UpstreamFails

----------------------------------------------------------------------------
(* The requests and configurations the request specifications draw from *)

RECURSIVE RoutesFromConfig(_)
\* ProxyService::routes_from_config: the enabled routes, in declaration
\* order, each with the selector of its pool.
RoutesFromConfig(rcs) ==
    IF rcs = <<>> THEN <<>>
    ELSE IF Head(rcs).enabled
    THEN <<[path_pattern |-> Head(rcs).path, target |-> Head(rcs).target,
            strip_prefix |-> Head(rcs).strip_prefix, methods |-> Head(rcs).methods,
            api_key_pool |-> Head(rcs).api_key_pool, headers |-> Head(rcs).headers]>>
         \o RoutesFromConfig(Tail(rcs))
    ELSE RoutesFromConfig(Tail(rcs))

\* A RouteConfig.
RouteConfig(path, target, strip, methods, pool, enabled) ==
    [path |-> path, target |-> target, strip_prefix |-> strip, methods |-> methods,
     api_key_pool |-> pool, enabled |-> enabled, headers |-> {}]

\* RouteConfig.headers: the static headers of a route.
WithHeaders(rc, hs) == [rc EXCEPT !.headers = hs]

\* default_header_name
DefaultPoolHeaders == [p \in PoolNames |-> "Authorization"]

\* The pools of the request specifications: "pa" holds two alphanumeric keys,
\* "pb" one key with a character that percent-encoding escapes.
ReqPoolKeys ==
    [p \in PoolNames |->
        IF p = "pa" THEN <<[key |-> "k1", weight |-> 1, enabled |-> TRUE], [key |-> "k2", weight |-> 1, enabled |-> TRUE]>>
        ELSE <<[key |-> "s c", weight |-> 1, enabled |-> TRUE]>>]

ReqSel ==
    /\ pool_keys = ReqPoolKeys
    /\ pool_strategy = [p \in PoolNames |-> "round_robin"]
    /\ round_robin_index = [s \in SelectorIds |-> 0]
    /\ weight_drawn = [s \in SelectorIds |-> -1]
    /\ call_pc = [c \in Callers |-> "idle"]
    /\ call_val = [c \in Callers |-> 0]
    /\ fetch_log = [p \in PoolNames |-> <<>>]
    /\ pick_log = [p \in PoolNames |-> <<>>]
    /\ overlapped = [p \in PoolNames |-> FALSE]

GuardDisabled == [enabled |-> FALSE, header_name |-> "X-T", tokens |-> <<>>]

Upstream == <<"http://up">>

\* The state of a listener when a request arrives.
ListenerState(g, rcs, qp, hn, r) ==
    /\ guard = g
    /\ route_configs = rcs
    /\ routes = RoutesFromConfig(rcs)
    /\ pool_query_param = qp
    /\ pool_header_name = hn
    /\ req = r
    /\ req_pc = "arrived"
    /\ handler = "none"
    /\ resp = NoResponse
    /\ fwd = NoForward
    /\ metrics = NewMetrics

\* The same with the default header name on every pool.
ReqArrives(g, rcs, qp, r) == ListenerState(g, rcs, qp, DefaultPoolHeaders, r)

NoQueryParam == [p \in PoolNames |-> None]

\* ---- the access guard ----
TokenTexts == {"", "ok", "t2"}

GuardConfigs ==
    { g \in [enabled : BOOLEAN, header_name : {"X-T"}, tokens : SeqsUpTo(TokenTexts, MaxTokens)] :
        GuardConfigValid(g) }

GuardHeaderValues ==
    {Absent, OpaqueValue} \cup {TextValue(v) : v \in {"", "ok", "OK", "bad"}}

GuardPaths == {HealthPath, MetricsPath, <<"/", "api">>, <<"/", "x">>}

InitGuard ==
    \E g \in GuardConfigs, m \in {"GET", "HEAD", "POST"}, p \in GuardPaths,
       h \in GuardHeaderValues :
        ReqArrives(g,
                   <<RouteConfig(<<"/", "api", "/", "*">>, Upstream, FALSE, <<>>, "none", TRUE)>>,
                   NoQueryParam,
                   [method |-> m, path |-> p, query |-> None,
                    headers |-> IF h = Absent THEN <<>> ELSE <<[name |-> "X-T", value |-> h]>>])

\* ---- route matching and rewriting ----
PatternAtoms == {"/", "*", "api"}

PathAtoms == {"/", "api", "x"}

\* Request paths: the path of a request URI starts with "/".
Paths == {p \in SeqsUpTo(PathAtoms, MaxPathLen) : p # <<>> /\ p[1] = "/"}

Patterns == SeqsUpTo(PatternAtoms, MaxPatternLen)

ReqMethods == {"GET", "Get", "POST"}

MethodLists == {<<>>, <<"GET">>, <<"post">>, <<"POST", "GET">>}

Targets == {Upstream, Upstream \o <<"/">>}

PlainRequest(m, p) ==
    [method |-> m, path |-> p, query |-> None, headers |-> <<>>]

\* One route of any pattern, with and without strip_prefix.
InitOneRoute ==
    \E pat \in Patterns, p \in Paths, s \in BOOLEAN, t \in Targets :
        ReqArrives(GuardDisabled, <<RouteConfig(pat, t, s, <<>>, "none", TRUE)>>,
                   NoQueryParam, PlainRequest("GET", p))

\* One route with a methods list.
InitMethods ==
    \E ms \in MethodLists, m \in ReqMethods, p \in {<<"/", "api">>, <<"/", "x">>} :
        ReqArrives(GuardDisabled, <<RouteConfig(<<"/", "api">>, Upstream, FALSE, ms, "none", TRUE)>>,
                   NoQueryParam, PlainRequest(m, p))

\* Several declared routes, some disabled, some with a key pool.
RouteChoices ==
    { RouteConfig(pat, Upstream, FALSE, ms, pool, en) :
        pat \in {<<"/", "api", "/", "*">>, <<"/", "*">>}, ms \in {<<>>, <<"POST">>},
        pool \in {"none", "pa"}, en \in BOOLEAN }

\* The request comes without a query or with a pool override.
InitRouteList ==
    \E rcs \in SeqsUpTo(RouteChoices, MaxRoutes), m \in {"GET", "POST"},
       p \in {<<"/", "api">>, <<"/", "api", "/", "x">>, <<"/", "x">>},
       q \in {None, Some(<<ApiKeyPoolParam, "=", "pb">>)} :
        ReqArrives(GuardDisabled, rcs, NoQueryParam,
                   [PlainRequest(m, p) EXCEPT !.query = q])

InitRoute == InitOneRoute \/ InitMethods \/ InitRouteList

\* ---- the query string ----
\* The parameters a query is made of ("p%62" is "pb" percent-encoded, "zz"
\* names no pool).
ParamTexts ==
    { <<ApiKeyPoolParam>>,
      <<ApiKeyPoolParam, "=", "pa">>,
      <<ApiKeyPoolParam, "=", "pb">>,
      <<ApiKeyPoolParam, "=", "p%62">>,
      <<ApiKeyPoolParam, "=", "zz">>,
      <<"x", "=", "1">>,
      <<>> }

Queries == {None} \cup {Some(Join(ps, "&")) : ps \in SeqsUpTo(ParamTexts, MaxParams)}

QueryParamNames == {None, Some(<<"key">>), Some(<<ApiKeyPoolParam>>)}

\* ApiKeyPool.query_param_name of the two pools: unset, set on both, set on
\* one only, and set to the name of the override parameter.
QueryPoolParams ==
    { qp \in [PoolNames -> QueryParamNames] :
        \/ qp["pa"] = qp["pb"] /\ qp["pa"] # Some(<<ApiKeyPoolParam>>)
        \/ qp["pa"] = Some(<<"key">>) /\ qp["pb"] = Some(<<ApiKeyPoolParam>>)
        \/ qp["pa"] = None /\ qp["pb"] = Some(<<"key">>) }

InitQuery ==
    \E q \in Queries, pool \in {"none", "pa"}, qp \in QueryPoolParams :
        ReqArrives(GuardDisabled,
                   <<RouteConfig(<<"/", "api", "/", "*">>, Upstream, FALSE, <<>>, pool, TRUE)>>,
                   qp,
                   [method |-> "GET", path |-> <<"/", "api", "/", "x">>, query |-> q,
                    headers |-> <<>>])

\* ---- the headers ----
\* Pools for the header specification: the key of "pb" holds a control
\* character, which no header value may carry.
HdrPoolKeys ==
    [p \in PoolNames |->
        IF p = "pa" THEN <<[key |-> "k1", weight |-> 1, enabled |-> TRUE]>>
        ELSE <<[key |-> "k\n", weight |-> 1, enabled |-> TRUE]>>]

HdrSel ==
    /\ pool_keys = HdrPoolKeys
    /\ pool_strategy = [p \in PoolNames |-> "round_robin"]
    /\ round_robin_index = [s \in SelectorIds |-> 0]
    /\ weight_drawn = [s \in SelectorIds |-> -1]
    /\ call_pc = [c \in Callers |-> "idle"]
    /\ call_val = [c \in Callers |-> 0]
    /\ fetch_log = [p \in PoolNames |-> <<>>]
    /\ pick_log = [p \in PoolNames |-> <<>>]
    /\ overlapped = [p \in PoolNames |-> FALSE]

\* The header lines a client sends, with the spelling of the names on the wire.
IncomingHeaders ==
    { [name |-> n, value |-> TextValue(v)] :
        n \in {"Host", "CONNECTION", "X-A", "x-api-key"}, v \in {"v1", "v2"} }

\* RouteConfig.headers entries.
StaticHeaders == {[name |-> "Host", value |-> "static.example"], [name |-> "X-A", value |-> "s"]}

\* ApiKeyPool.header_name: usual, a name the gateway sets itself, and a name
\* that is no valid header name.
PoolHeaderNames == {"X-API-Key", "Host", "X Key"}

SecureUpstream == <<"https://h:8443">>

InitHeaders ==
    \E hs \in SeqsUpTo(IncomingHeaders, MaxHeaders), t \in {Upstream, SecureUpstream},
       sh \in SUBSET StaticHeaders, pool \in {"none", "pa", "pb"},
       hn \in PoolHeaderNames, qn \in {None, Some(<<"key">>)} :
        ListenerState(GuardDisabled,
                      <<WithHeaders(RouteConfig(<<"/", "api", "/", "*">>, t, FALSE, <<>>, pool, TRUE), sh)>>,
                      [p \in PoolNames |-> qn],
                      [p \in PoolNames |-> hn],
                      [method |-> "GET", path |-> <<"/", "api", "/", "x">>, query |-> None,
                       headers |-> hs])

\* ---- loading a configuration ----
\* GatewayConfig::validate, the pool references of the routes.
UnknownPoolRef(c) ==
    \E i \in 1..Len(c.routes) :
        c.routes[i].api_key_pool.some /\ c.routes[i].api_key_pool.val \notin DOMAIN c.api_key_pools

\* A mutant: only a pool without any key is refused.
PoolWithoutAnyKey(c) == \E name \in DOMAIN c.api_key_pools : c.api_key_pools[name].keys = <<>>

\* GatewayConfig::validate, the enabled keys of the pools.
PoolWithoutEnabledKey(c) ==
    \E name \in DOMAIN c.api_key_pools : SelectorKeys(c.api_key_pools[name].keys) = <<>>

\* The closure of validate and routes_for_server: the reference is the
\* route's name or its path.
RefNames(r, route_ref) == (r.name.some /\ r.name.val = route_ref) \/ r.path = route_ref

\* GatewayConfig::validate, the route references of self.servers.
UnknownRouteRef(c) ==
    \E k \in 1..Len(c.servers) :
        \E j \in 1..Len(c.servers[k].routes) :
            ~\E i \in 1..Len(c.routes) : RefNames(c.routes[i], c.servers[k].routes[j])

\* GatewayConfig::validate: the first check that fails, "" when none does.
Validate(c) ==
    IF UnknownPoolRef(c) THEN "unknown API key pool"
    ELSE IF PoolWithoutEnabledKey(c) THEN "no enabled keys"
    ELSE IF UnknownRouteRef(c) THEN "unknown route"
    ELSE IF ~GuardConfigValid(c.master_access_token) THEN "no tokens"
    ELSE ""

\* GatewayConfig::get_servers
GetServers(c) == IF c.servers # <<>> THEN c.servers ELSE <<c.server>>

\* GatewayConfig::server_addr_for: format!("{}:{}", host, port)
ServerAddrFor(server) == <<server.host, ":", ToString(server.port)>>

RECURSIVE FilterRoutes(_, _)
\* The routes of rs, in order, that are enabled and named by one of the
\* references (every enabled route when all is set).
FilterRoutes(rs, refs) ==
    IF rs = <<>> THEN <<>>
    ELSE IF Head(rs).enabled /\ \E j \in 1..Len(refs) : RefNames(Head(rs), refs[j])
    THEN <<Head(rs)>> \o FilterRoutes(Tail(rs), refs)
    ELSE FilterRoutes(Tail(rs), refs)

\* GatewayConfig::enabled_routes
EnabledRoutes(c) == SelectSeq(c.routes, LAMBDA r : r.enabled)

\* A mutant: a server without references gets the disabled routes too.
RoutesForServerAll(c, server) ==
    IF server.routes = <<>> THEN c.routes ELSE FilterRoutes(c.routes, server.routes)

\* GatewayConfig::routes_for_server
RoutesForServer(c, server) ==
    IF server.routes = <<>> THEN EnabledRoutes(c) ELSE FilterRoutes(c.routes, server.routes)

\* GatewayConfig::from_file after the parse: validate.
LoadConfig ==
    /\ load_pc = "parsed"
    /\ load_err' = Validate(config)
    /\ load_pc' = IF Validate(config) = "" THEN "loaded" ELSE "failed"
    /\ UNCHANGED <<config, listeners>>
    /\ UNCHANGED <<selVars, relVars, reqVars>>

\* run_servers: one listener per server of get_servers, bound to
\* server_addr_for and serving routes_for_server.
StartListeners ==
    /\ load_pc = "loaded"
    /\ listeners' = [i \in 1..Len(GetServers(config)) |->
                        [addr |-> ServerAddrFor(GetServers(config)[i]),
                         routes |-> RoutesForServer(config, GetServers(config)[i])]]
    /\ load_pc' = "listening"
    /\ UNCHANGED <<config, load_err>>
    /\ UNCHANGED <<selVars, relVars, reqVars>>

NextConfig ==
    \/ LoadConfig
    \/ StartListeners

\* The route references a server lists: none, a name, a path, both in either
\* order, and a reference that names no route.
RefLists ==
    {<<>>, <<<<"r1">>>>, <<<<"/", "b">>>>, <<<<"nope">>>>, <<<<"r1">>, <<"/", "b">>>>,
     <<<<"/", "b">>, <<"r1">>>>}

\* default_host, default_port and one more port.
ServerChoices ==
    { [name |-> None, host |-> "0.0.0.0", port |-> pt, timeout |-> 30, routes |-> refs] :
        pt \in {8080, 9090}, refs \in RefLists }

\* A named route and a route without a name.
ConfigRoutes(pool, en) ==
    <<[name |-> Some(<<"r1">>), path |-> <<"/", "api", "/", "*">>, target |-> Upstream,
       api_key_pool |-> pool, enabled |-> TRUE],
      [name |-> None, path |-> <<"/", "b">>, target |-> Upstream,
       api_key_pool |-> None, enabled |-> en]>>

\* The configurations a file parses to.
InitConfig ==
    /\ \E ss \in SeqsUpTo(ServerChoices, MaxServers), legacy \in RefLists,
          pool \in {None, Some("pa"), Some("zz")}, en \in BOOLEAN, key_enabled \in BOOLEAN,
          guard_enabled \in BOOLEAN :
          config = [server |-> [name |-> None, host |-> "0.0.0.0", port |-> 8080,
                                timeout |-> 30, routes |-> legacy],
                    servers |-> ss,
                    routes |-> ConfigRoutes(pool, en),
                    api_key_pools |->
                        [n \in {"pa"} |->
                            [keys |-> <<[key |-> "k1", weight |-> 1, enabled |-> key_enabled],
                                        [key |-> "k2", weight |-> 1, enabled |-> FALSE]>>]],
                    master_access_token |-> [enabled |-> guard_enabled, header_name |-> "X-T",
                                             tokens |-> <<>>]]
    /\ load_pc = "parsed"
    /\ load_err = ""
    /\ listeners = <<>>

\* No configuration being loaded, for the other specifications.
IdleCfg ==
    /\ config = [server |-> [name |-> None, host |-> "0.0.0.0", port |-> 8080,
                             timeout |-> 30, routes |-> <<>>],
                 servers |-> <<>>,
                 routes |-> <<>>,
                 api_key_pools |-> <<>>,
                 master_access_token |-> GuardDisabled]
    /\ load_pc = "listening"
    /\ load_err = ""
    /\ listeners = <<>>

\* No request, for the specifications that do not exercise the listener.
IdleReq ==
    ReqArrives(GuardDisabled, <<>>, NoQueryParam, PlainRequest("GET", <<"/">>))

\* The orchestrator before start_server runs, for the specifications that do
\* not exercise it.
IdleRel ==
    /\ file = "A"
    /\ fs_events = 0
    /\ changes = 0
    /\ sig_val = FALSE
    /\ sig_ver = 0
    /\ orch_pc = "subscribe"
    /\ orch_seen = 0
    /\ run_seen = 0
    /\ gen = 0
    /\ tasks = <<>>
    /\ err_kind = "none"
    /\ last_signalled = "none"
    /\ serving_gen = 0
    /\ gen_metrics = <<>>

----------------------------------------------------------------------------
(* Specifications *)

\* Concurrent picks on the key selectors.
InitSpecPick == InitPick /\ IdleRel /\ IdleReq /\ IdleCfg

SpecPick == InitSpecPick /\ [][NextPick]_vars

InitSpecSel == InitSel /\ IdleRel /\ IdleReq /\ IdleCfg

SpecSel == InitSpecSel /\ [][NextSel]_vars

\* Round-robin picks on selectors whose counter is about to wrap.
InitSpecWrap == InitWrap /\ IdleRel /\ IdleReq /\ IdleCfg

SpecWrap == InitSpecWrap /\ [][NextSel]_vars

\* The gateway started with --watch while the configuration file changes.
InitSpecReload == InitRel /\ IdleSel /\ IdleReq /\ IdleCfg

SpecReload == InitSpecReload /\ [][NextReload]_vars

\* One request through the guard, the router and the proxy.
InitSpecGuard == InitGuard /\ ReqSel /\ IdleRel /\ IdleCfg

SpecGuard == InitSpecGuard /\ [][NextReq]_vars

InitSpecRoute == InitRoute /\ ReqSel /\ IdleRel /\ IdleCfg

SpecRoute == InitSpecRoute /\ [][NextReq]_vars

InitSpecQuery == InitQuery /\ ReqSel /\ IdleRel /\ IdleCfg

SpecQuery == InitSpecQuery /\ [][NextReq]_vars

InitSpecHeaders == InitHeaders /\ HdrSel /\ IdleRel /\ IdleCfg

SpecHeaders == InitSpecHeaders /\ [][NextReq]_vars

\* A configuration file is loaded and its listeners are built.
InitSpecConfig == InitConfig /\ IdleSel /\ IdleRel /\ IdleReq

SpecConfig == InitSpecConfig /\ [][NextConfig]_vars

----------------------------------------------------------------------------
(* Claims about the selector, checked under SpecSel *)

\* The declared entries of pool p that are enabled.
EnabledIdx(p) == {i \in DOMAIN pool_keys[p] : pool_keys[p][i].enabled}

\* The key at position j (from 0) of the declaration order of pool p, disabled
\* entries skipped: the enabled entry with exactly j enabled entries before it.
EnabledKeyAt(p, j) ==
    LET i == CHOOSE x \in EnabledIdx(p) :
                 Cardinality({y \in EnabledIdx(p) : y < x}) = j
    IN pool_keys[p][i].key

CallsInProgress(p) == {c \in Callers : RoutePool(c) = p /\ call_pc[c] = "fetched"}

\* C1: on a fresh round-robin selector with N >= 1 enabled keys, when the
\* picks are made one after another, the k-th pick (k = 0, 1, 2, ...) returns
\* the enabled key at position k mod N of the declaration order.
C1_RoundRobinSequence ==
    \A p \in PoolNames :
        LET n == Cardinality(EnabledIdx(p))
        IN (n >= 1 /\ ~overlapped[p]) =>
              \A k \in 1..Len(pick_log[p]) :
                  pick_log[p][k] = EnabledKeyAt(p, (k - 1) % n)

\* Four sequential picks on a pool whose enabled keys are k1 and k3 (k2 is
\* disabled) have returned k1, k3, k1, k3.
C1_Witness ==
    /\ ~overlapped["pa"]
    /\ EnabledIdx("pa") = {1, 3}
    /\ pick_log["pa"] = <<"k1", "k3", "k1", "k3">>

\* C2: for every interleaving of K concurrent picks on one round-robin pool,
\* made through any of the routes that name the pool, the K calls obtain K
\* distinct consecutive counter values; hence once they have all returned and
\* K is a multiple of the number N of enabled keys, each enabled key has been
\* selected exactly K/N times.
C2_ConcurrentPicksDistinct ==
    \A p \in PoolNames :
        LET n == Cardinality(EnabledIdx(p))
            k == Len(fetch_log[p])
        IN n >= 1 =>
            /\ {fetch_log[p][i] : i \in 1..k} = 0..(k - 1)
            /\ (CallsInProgress(p) = {} /\ k % n = 0) =>
                  \A i \in EnabledIdx(p) :
                      CountOf(pick_log[p], pool_keys[p][i].key) = k \div n

\* Two routes of pool "pa" (two enabled keys) picked concurrently, four calls
\* in all, and the calls have all returned.
C2_Witness ==
    /\ overlapped["pa"]
    /\ Cardinality(EnabledIdx("pa")) = 2
    /\ Len(pick_log["pa"]) = 4
    /\ CallsInProgress("pa") = {}

\* C30: for a round-robin selector with N enabled keys, every index selected
\* is in [0, N) and every pick returns the cyclic successor, in declaration
\* order, of the key the previous pick returned, the pick at which the
\* counter reaches the maximum of its integer type and wraps to zero
\* included (picks made one after the other).
C30_SuccessorAcrossWrap ==
    \A p \in PoolNames :
        LET n == Cardinality(EnabledIdx(p))
        IN (n >= 1 /\ ~overlapped[p]) =>
              /\ \A k \in 1..Len(fetch_log[p]) :
                    RoundRobinSlot(fetch_log[p][k], n) \in 0..(n - 1)
              /\ \A k \in 1..(Len(pick_log[p]) - 1) :
                    \E j \in 0..(n - 1) :
                        /\ pick_log[p][k] = EnabledKeyAt(p, j)
                        /\ pick_log[p][k + 1] = EnabledKeyAt(p, (j + 1) % n)

----------------------------------------------------------------------------
(* Claims about reload in watch mode, checked under SpecReload *)

\* The listeners of the newest load cycle.
CurrentListeners == {i \in DOMAIN tasks : tasks[i].gen = gen}

\* Configuration c is what the gateway serves: each of its listeners is
\* accepting, and no listener built from another configuration is.
Serving(c) ==
    /\ \A k \in 1..Len(ConfigServers(c)) :
          \E i \in DOMAIN tasks :
              /\ tasks[i].st = "accepting"
              /\ tasks[i].cfg = c
              /\ tasks[i].addr = ConfigServers(c)[k]
    /\ \A i \in DOMAIN tasks : tasks[i].st = "accepting" => tasks[i].cfg = c

\* C3: in watch mode, once a valid configuration is being served, a
\* configuration file found invalid at the moment it is read (also one that
\* was valid when the watcher checked it) never stops the service: the
\* listeners of the current configuration keep serving.
C3_InvalidFileKeepsServing ==
    (serving_gen = gen /\ gen >= 1 /\ orch_pc = "err" /\ err_kind = "config")
        => \A i \in CurrentListeners : tasks[i].st = "accepting"

\* C4: on a reload signal the orchestrator does not start loading the new
\* configuration until every listener of the previous generation has stopped
\* accepting and all of its in-flight requests have finished.
C4_ReloadAfterDrain ==
    (orch_pc = "load" /\ gen >= 1)
        => \A i \in DOMAIN tasks : tasks[i].st \in {"done", "failed"}

\* C5: in watch mode, when the watcher has validated a changed file and
\* signalled a reload, and the file is not changed again, the orchestrator
\* eventually runs listeners built from the new configuration: once the
\* gateway has no step left to take, the signalled configuration is served.
C5_SignalledConfigServed ==
    (last_signalled # "none" /\ ~ENABLED GatewayNext) => Serving(last_signalled)

\* C26: every listener task that is accepting when the reload signal (true)
\* is sent observes it and stops accepting, for every interleaving of the
\* orchestrator's reset of the signal to false with the listeners' reads: once
\* the gateway has no step left to take, no listener that was accepting when
\* a reload signal was sent is still accepting.
C26_SignalledListenersStop ==
    ~ENABLED GatewayNext =>
        \A i \in DOMAIN tasks : tasks[i].signalled => tasks[i].st # "accepting"

\* C16: the metric values accumulated before a reload (the requests_total
\* series, total_requests and total_errors) are still there with the same
\* values after the reload: the metrics the listeners of a new load cycle
\* start with are those the previous load cycle had reached, never zero again.
C16_MetricsSurviveReload ==
    [][(gen >= 1 /\ gen' = gen + 1) => gen_metrics'[gen'] = gen_metrics[gen]]_vars

----------------------------------------------------------------------------
(* Claims about the access guard, checked under SpecGuard *)

\* The request has been through the guard.
Guarded == req_pc \in {"passed", "rejected", "proxy", "done"}

\* The header named guard.header_name carries a value equal to a token.
HeaderValueIsToken ==
    LET sent == {i \in 1..Len(req.headers) : req.headers[i].name = guard.header_name}
    IN \E i \in sent :
          /\ req.headers[i].value.kind = "text"
          /\ \E k \in 1..Len(guard.tokens) : guard.tokens[k] = req.headers[i].value.val

\* C6: with the guard enabled, a request (to the health path, the metrics
\* path or a proxied path) passes to its handler if and only if the value of
\* the header named guard.header_name equals one of guard.tokens exactly;
\* otherwise it is answered 401 "Invalid or missing access token" and reaches
\* no handler.  With the guard disabled every request passes.
C6_GuardPassesIffTokenMatches ==
    Guarded =>
        IF guard.enabled /\ ~HeaderValueIsToken
        THEN /\ req_pc = "rejected"
             /\ resp = [status |-> 401, body |-> "Invalid or missing access token"]
             /\ handler = "none"
        ELSE req_pc # "rejected"

\* The request has been through the router.
Routed == req_pc \in {"proxy", "upstream", "done"}

\* C23: on every listener, every request other than GET on the health path
\* and GET on the metrics path, requests with another method to the health or
\* the metrics path included, is handled by the proxy handler.
C23_OthersReachProxy ==
    Routed =>
        IF req.method = "GET" /\ req.path \in {HealthPath, MetricsPath}
        THEN handler = (IF req.path = HealthPath THEN "health" ELSE "metrics")
        ELSE handler = "proxy"

\* The request carries no header named guard.header_name with a text value.
NoTokenSent ==
    \A i \in 1..Len(req.headers) :
        req.headers[i].name = guard.header_name => req.headers[i].value.kind = "opaque"

\* C28: with the guard enabled, a request that carries no header named
\* guard.header_name, or one whose value is not valid text, is rejected with
\* 401, for every token list that passes the validation of the configuration.
C28_MissingTokenRejected ==
    (Guarded /\ guard.enabled /\ GuardConfigValid(guard) /\ NoTokenSent)
        => req_pc = "rejected" /\ resp.status = 401

----------------------------------------------------------------------------
(* Claims about route matching and rewriting, checked under SpecRoute *)

\* The request has been handled by the proxy.
Proxied == req_pc = "done" /\ handler = "proxy"

\* The route compiled from the k-th declared route.
Compiled(k) == RoutesFromConfig(<<[route_configs[k] EXCEPT !.enabled = TRUE]>>)[1]

\* The declared routes that are enabled and match the request.
MatchingDeclared ==
    { k \in 1..Len(route_configs) :
        route_configs[k].enabled /\ RouteMatches(Compiled(k), req.path, req.method) }

\* C7: the proxy dispatches a request to the first route, in declaration
\* order among the routes compiled for the listener (the enabled ones), that
\* matches its method and path; a later matching route is never chosen when an
\* earlier one matches, and no route is chosen only when none matches.
C7_FirstMatchWins ==
    Proxied =>
        IF MatchingDeclared = {}
        THEN fwd.route = 0 /\ resp.status = 404
        ELSE LET k == CHOOSE x \in MatchingDeclared : \A y \in MatchingDeclared : x <= y
             IN /\ fwd.route = Cardinality({j \in 1..k : route_configs[j].enabled})
                /\ routes[fwd.route] = Compiled(k)

\* Two different enabled routes both match the request and the first one was
\* chosen.
C7_Witness ==
    /\ Proxied
    /\ Len(route_configs) = 2
    /\ MatchingDeclared = {1, 2}
    /\ route_configs[1] # route_configs[2]
    /\ fwd.route = 1

\* The spellings of a method that differ in ASCII case only.
MethodSpellings == {{"GET", "Get", "get"}, {"POST", "Post", "post"}}

SameMethod(a, b) == a = b \/ \E S \in MethodSpellings : a \in S /\ b \in S

\* path starts with p: path is p followed by some rest.
HasPrefix(path, p) == \E k \in 0..Len(path) : path = p \o SubSeq(path, k + 1, Len(path))

\* The pattern semantics as the claim words them.
PatternAccepts(pattern, path) ==
    LET n == Len(pattern)
    IN IF n >= 2 /\ pattern[n - 1] = "/" /\ pattern[n] = "*"
       THEN LET prefix == SubSeq(pattern, 1, n - 2)
            IN path = prefix \/ HasPrefix(path, prefix \o <<"/">>)
       ELSE IF n >= 1 /\ pattern[n] = "/"
       THEN LET base == SubSeq(pattern, 1, n - 1)
            IN path = base \/ HasPrefix(path, pattern)
       ELSE path = pattern \/ HasPrefix(path, pattern \o <<"/">>)

MatchedPrefix(pattern) ==
    LET n == Len(pattern)
    IN IF n >= 2 /\ pattern[n - 1] = "/" /\ pattern[n] = "*" THEN SubSeq(pattern, 1, n - 2)
       ELSE IF n >= 1 /\ pattern[n] = "/" THEN SubSeq(pattern, 1, n - 1)
       ELSE pattern

\* C9: for a route with strip_prefix and a path that matches it, the path
\* forwarded is the request path with the matched prefix removed (the pattern
\* minus its trailing "/*", minus its trailing "/", or the pattern itself for
\* a plain pattern); an empty remainder is forwarded as "/", and the result
\* is appended to the target with exactly one "/" between them.
C9_StripRemovesMatchedPrefix ==
    (Proxied /\ fwd.route # 0 /\ routes[fwd.route].strip_prefix) =>
        LET r == routes[fwd.route]
            prefix == MatchedPrefix(r.path_pattern)
            remainder == SubSeq(req.path, Len(prefix) + 1, Len(req.path))
            forwarded == IF remainder = <<>> THEN <<"/">> ELSE remainder
            base == TrimEndMatches(r.target, "/")
        IN fwd.url = base \o (IF forwarded[1] = "/" THEN forwarded ELSE <<"/">> \o forwarded)

----------------------------------------------------------------------------
(* Claims about the query string, checked under SpecQuery *)

\* The query of a URL: the text after the first "?", None without one.
UrlQuery(url) ==
    LET i == FirstIndex(url, "?")
    IN IF i = 0 THEN None ELSE Some(SubSeq(url, i + 1, Len(url)))

\* The name of a query parameter: the text before its first "=".
ParamName(pair) ==
    LET i == FirstIndex(pair, "=")
    IN IF i = 0 THEN pair ELSE SubSeq(pair, 1, i - 1)

\* The names of the parameters of the URL sent upstream.
ForwardedParamNames ==
    LET q == UrlQuery(fwd.url)
    IN IF q.some THEN {ParamName(Split(q.val, "&")[i]) : i \in 1..Len(Split(q.val, "&"))}
       ELSE {}

\* C10: for every incoming request and every pool configuration, the URL
\* forwarded upstream contains no query parameter named api_key_pool, whether
\* the incoming parameter has a value or not, wherever it occurs and however
\* often it is repeated.
C10_NoApiKeyPoolForwarded ==
    (Proxied /\ fwd.route # 0) => <<ApiKeyPoolParam>> \notin ForwardedParamNames

\* The parameters of the incoming query, in order.
IncomingParams == IF req.query.some THEN Split(req.query.val, "&") ELSE <<>>

\* A parameter api_key_pool=<name>.
IsOverrideParam(pair) == Len(pair) >= 2 /\ pair[1] = ApiKeyPoolParam /\ pair[2] = "="

\* A parameter that is not named api_key_pool.
IsOtherParam(pair) == ParamName(pair) # <<ApiKeyPoolParam>>

\* The pool names given by the api_key_pool=<name> parameters, URL-decoded.
OverrideNames ==
    LET ov == SelectSeq(IncomingParams, IsOverrideParam)
    IN [i \in 1..Len(ov) |-> PercentDecode(SubSeq(ov[i], 3, Len(ov[i])))]

\* The query made of the other parameters, unchanged and in their order.
OtherQuery == Join(SelectSeq(IncomingParams, IsOtherParam), "&")

\* The key parameter the gateway appends, <<>> when it appends none.
InjectedParam ==
    IF fwd.key.some /\ fwd.pool # "none" /\ pool_query_param[fwd.pool].some
    THEN pool_query_param[fwd.pool].val \o <<"=", PercentEncodeKey(fwd.key.val)>>
    ELSE <<>>

\* C11: when the incoming query has one or more api_key_pool=<name>
\* parameters, the selector used is that of the pool named by the last one
\* (URL-decoded), in place of the route's pool; when it has none, the route's
\* pool is used; all other parameters are forwarded unchanged and in their
\* original order (followed only by the key parameter the gateway appends).
C11_LastOverrideWins ==
    (Proxied /\ fwd.route # 0) =>
        LET n == Len(OverrideNames)
            base == Upstream \o req.path
                    \o (IF OtherQuery = <<>> THEN <<>> ELSE <<"?">> \o OtherQuery)
            rest == SubSeq(fwd.url, Len(base) + 1, Len(fwd.url))
        IN /\ n = 0 => fwd.pool = routes[fwd.route].api_key_pool
           /\ \A p \in PoolNames :
                 (n > 0 /\ OverrideNames[n] = PoolNameText(p)) => fwd.pool = p
           /\ fwd.key.some <=> fwd.pool # "none"
           /\ fwd.key.some =>
                 \E i \in 1..Len(pool_keys[fwd.pool]) : pool_keys[fwd.pool][i].key = fwd.key.val
           /\ StartsWith(fwd.url, base)
           /\ IF InjectedParam = <<>> THEN rest = <<>>
              ELSE rest \in {<<"?">> \o InjectedParam, <<"&">> \o InjectedParam}

\* Two api_key_pool parameters naming different pools around another
\* parameter: the last one, "pb", was used in place of the route's pool.
C11_Witness ==
    /\ Proxied
    /\ Len(OverrideNames) = 2
    /\ OverrideNames[1] # OverrideNames[2]
    /\ OverrideNames[2] = PoolNameText("pb")
    /\ routes[1].api_key_pool = "pa"
    /\ fwd.pool = "pb"
    /\ OtherQuery = <<"x", "=", "1">>

\* The last api_key_pool=<name> parameter of the request names no configured
\* pool.
UnknownOverride ==
    /\ Len(OverrideNames) > 0
    /\ \A p \in PoolNames : OverrideNames[Len(OverrideNames)] # PoolNameText(p)

\* The request has been built for the upstream by the proxy handler.
Built == handler = "proxy" /\ req_pc \in {"upstream", "done"}

\* C29: when the api_key_pool override of a request names a pool that is not
\* configured, the request is not rejected: it is forwarded with a key of the
\* matched route's own pool (with no key when the route has none), and the
\* override parameter is removed from the forwarded query all the same.
C29_UnknownOverrideFallsBack ==
    (Built /\ UnknownOverride) =>
        LET route == routes[fwd.route]
            base == Upstream \o req.path
                    \o (IF OtherQuery = <<>> THEN <<>> ELSE <<"?">> \o OtherQuery)
        IN /\ fwd.route # 0
           /\ resp.status \notin {400, 401, 404}
           /\ fwd.pool = route.api_key_pool
           /\ IF route.api_key_pool = "none" THEN fwd.key = None
              ELSE /\ fwd.key.some
                   /\ \E k \in EnabledIdx(route.api_key_pool) :
                         pool_keys[route.api_key_pool][k].key = fwd.key.val
           /\ fwd.url \in {base} \cup {base \o <<sep>> \o InjectedParam : sep \in {"?", "&"}}
           /\ \A i \in 1..Len(IncomingParams) :
                 IsOverrideParam(IncomingParams[i]) =>
                    \A j \in 1..Len(Split(fwd.url, "&")) :
                        ~EndsWith(Split(fwd.url, "&")[j], IncomingParams[i])

\* An override naming the pool "pb" followed by one naming no pool, on a
\* route of pool "pa": the upstream answered the request, sent with the key
\* of "pa" and the one other parameter.
C29_Witness ==
    /\ Proxied
    /\ resp.status = 200
    /\ Len(OverrideNames) = 2
    /\ OverrideNames[1] = PoolNameText("pb")
    /\ OverrideNames[2] = <<"zz">>
    /\ routes[1].api_key_pool = "pa"
    /\ fwd.pool = "pa"
    /\ fwd.key.some
    /\ OtherQuery = <<"x", "=", "1">>

----------------------------------------------------------------------------
(* Claims about the outcome of a proxied request, checked under SpecRoute *)

\* C17: a proxied request whose handling exceeds the listener's timeout is
\* ended and answered 504; in particular, for a request whose upstream never
\* responds: once the request waits for the upstream and the gateway has no
\* step of its own left to take, the client has been answered 504.
C17_SilentUpstreamAnswered504 ==
    (req_pc = "upstream" /\ ~ENABLED GatewayReqNext) => resp.status = 504

\* No route compiled for the listener matches the request.
Unmatched == \A i \in DOMAIN routes : ~RouteMatches(routes[i], req.path, req.method)

C27_RecordedStatusIsReturned ==
    Proxied =>
        metrics.requests_total
            = SetToBag({[method |-> req.method, path |-> NormalizePath(req.path),
                         status |-> resp.status]})

----------------------------------------------------------------------------
(* Claims about the strategies, checked under SpecPick *)

\* The values of the enabled keys declared in a pool.
EnabledKeyValues(p) == {pool_keys[p][j].key : j \in {i \in DOMAIN pool_keys[p] : pool_keys[p][i].enabled}}

\* C15: for every pool, a key pick returns none if and only if the pool has
\* no enabled key; otherwise it returns one of the pool's enabled keys, under
\* every strategy (round_robin, random, weight), weights that are all zero
\* included.
C15_PickReturnsEnabledKey ==
    \A p \in PoolNames :
        \A i \in 1..Len(pick_log[p]) :
            /\ pick_log[p][i] = "none" <=> EnabledKeyValues(p) = {}
            /\ pick_log[p][i] # "none" => pick_log[p][i] \in EnabledKeyValues(p)

\* A weighted pool whose enabled keys all weigh zero, beside a disabled key
\* that weighs more, has returned keys.
C15_Witness ==
    /\ pool_strategy["pa"] = "weight"
    /\ \A j \in DOMAIN pool_keys["pa"] : pool_keys["pa"][j].enabled <=> pool_keys["pa"][j].weight = 0
    /\ Cardinality(EnabledKeyValues("pa")) = 2
    /\ Len(pick_log["pa"]) = 2
    /\ pick_log["pa"][1] # pick_log["pa"][2]
    /\ pool_strategy["pb"] = "random"
    /\ pick_log["pb"] = <<"k9">>

\* The weights of the enabled entries of a pool up to entry i, added as numbers.
RECURSIVE CumulativeWeight(_, _)
CumulativeWeight(p, i) ==
    IF i = 0 THEN 0
    ELSE (IF pool_keys[p][i].enabled THEN pool_keys[p][i].weight ELSE 0) + CumulativeWeight(p, i - 1)

\* The first enabled entry, in declaration order, whose cumulative weight
\* exceeds r (0: none).
FirstExceeding(p, r) ==
    LET over == {i \in EnabledIdx(p) : CumulativeWeight(p, i) > r}
    IN IF over = {} THEN 0 ELSE CHOOSE i \in over : \A j \in over : i <= j

\* The position of entry i among the enabled entries, counted from 0.
SlotOf(p, i) == Cardinality({j \in EnabledIdx(p) : j < i})

\* The values of r, among those the selector can draw, that select entry i.
DrawsSelecting(p, i) ==
    {r \in WeightedDraws(SelectorKeys(pool_keys[p])) :
        r >= 0 /\ WeightedWalk(SelectorKeys(pool_keys[p]), 1, 0, r) = SlotOf(p, i)}

\* A weighted pick with total_weight > 0 was made on the pool.
WeightedPickMade(p) ==
    /\ pool_strategy[p] = "weight"
    /\ pick_log[p] # <<>>
    /\ weight_drawn[p] >= 0

\* C25: under the weight strategy with total_weight > 0, the key returned
\* for the drawn value r is the first enabled entry, in declaration order,
\* whose cumulative weight exceeds r, some entry's cumulative weight does
\* exceed r (the fallback to the last entry is not taken), the entry
\* returned does not weigh 0, and exactly weight_i of the values r can take
\* select entry i.
C25_WeightedPickProportional ==
    \A p \in PoolNames :
        WeightedPickMade(p) =>
            LET first == FirstExceeding(p, weight_drawn[p])
            IN /\ first # 0
               /\ pick_log[p][Len(pick_log[p])] = pool_keys[p][first].key
               /\ pool_keys[p][first].weight > 0
               /\ \A i \in EnabledIdx(p) :
                     Cardinality(DrawsSelecting(p, i)) = pool_keys[p][i].weight

----------------------------------------------------------------------------
(* Claims about the forwarded headers, checked under SpecHeaders *)

\* The request was sent upstream.
Forwarded == Proxied /\ fwd.route # 0

\* The values the forwarded request carries under a header name.
ForwardedValues(name) == {e.value : e \in {x \in fwd.headers : x.name = name}}

\* The authority of the matched route's target.
TargetAuthority == ExtractHostFromUrl(routes[fwd.route].target).val

\* C24: each proxied request for which a key is picked from a pool adds
\* exactly one to api_key_usage_total, under the key (its label when it has
\* one, its value otherwise) and the route; a request for which no key is
\* picked adds to no series of api_key_usage_total.
C24_KeyUsageCounted ==
    Forwarded =>
        metrics.api_key_usage_total
            = IF fwd.key.some
              THEN SetToBag({[api_key |-> fwd.key.val,
                              route |-> routes[fwd.route].path_pattern]})
              ELSE EmptyBag

\* C12: for every forwarded request, the Host header sent upstream equals
\* the authority (host and optional port) of the matched route's target URL,
\* for every set of client headers, every set of per-route static headers
\* and every pool header name.
C12_HostIsTargetAuthority ==
    Forwarded => ForwardedValues("host") = {TextValue(TargetAuthority)}

\* The names the claim lists, in lower case.
HopByHopNames ==
    {"connection", "keep-alive", "proxy-authenticate", "proxy-authorization", "te",
     "trailers", "transfer-encoding", "upgrade", "host"}

\* The header names a static header of the route or the pool header sets.
SetByRouteOrPool ==
    {LowerHeaderName(e.name) : e \in routes[fwd.route].headers}
    \cup (IF fwd.key.some /\ ~pool_query_param[fwd.pool].some
          THEN {LowerHeaderName(pool_header_name[fwd.pool])} ELSE {})

\* C13: no incoming header whose name is, up to ASCII case, one of the nine
\* hop-by-hop names (host included) is copied to the forwarded request; every
\* other incoming header is copied with its value unchanged unless a route
\* static header or the pool header overwrites it.
C13_HopByHopNeverCopied ==
    Forwarded =>
        \A i \in 1..Len(req.headers) :
            LET n == LowerHeaderName(req.headers[i].name)
            IN IF n \in HopByHopNames
               THEN \/ n \in SetByRouteOrPool
                    \/ n = "host" /\ ForwardedValues(n) = {TextValue(TargetAuthority)}
                    \/ ForwardedValues(n) = {}
               ELSE n \in SetByRouteOrPool \/ req.headers[i].value \in ForwardedValues(n)

\* C14: for every forwarded request for which a key was picked: when the
\* pool's query_param_name is set, the key is in the forwarded query as
\* query_param_name=<percent-encoded key> (after "&" when other parameters
\* remain, after "?" otherwise) and the gateway sets it in no header; when it
\* is unset, the key is the value of the header pool.header_name, verbatim,
\* and is not in the forwarded query.
C14_KeyInQueryOrHeader ==
    (Forwarded /\ fwd.key.some) =>
        LET param == pool_query_param[fwd.pool]
            q == UrlQuery(fwd.url)
            pairs == IF q.some THEN Split(q.val, "&") ELSE <<>>
        IN IF param.some
           THEN /\ pairs # <<>>
                /\ pairs[Len(pairs)] = param.val \o <<"=", PercentEncodeKey(fwd.key.val)>>
                /\ \A e \in fwd.headers : e.value # TextValue(fwd.key.val)
           ELSE /\ ForwardedValues(LowerHeaderName(pool_header_name[fwd.pool]))
                      = {TextValue(fwd.key.val)}
                /\ \A i \in 1..Len(fwd.url) :
                      fwd.url[i] \notin {fwd.key.val, PercentEncodeKey(fwd.key.val)}

----------------------------------------------------------------------------
(* Claims about loading a configuration, checked under SpecConfig *)

\* The configuration loaded.
Loaded == load_pc \in {"loaded", "listening"}

\* The effective listeners: the entries of servers, or the legacy server
\* block when servers is empty.
EffectiveListeners == IF Len(config.servers) > 0 THEN config.servers ELSE <<config.server>>

\* The reference equals the name or the exact path of a defined route.
Resolves(route_ref) ==
    \E i \in 1..Len(config.routes) :
        config.routes[i].name = Some(route_ref) \/ config.routes[i].path = route_ref

\* C19: a configuration loads only if, for every effective listener (each
\* entry of servers, or the legacy server block when servers is empty), every
\* entry of its routes list equals the name or the exact path of some defined
\* route.
C19_LoadedRefsResolve ==
    Loaded =>
        \A k \in 1..Len(EffectiveListeners) :
            \A j \in 1..Len(EffectiveListeners[k].routes) :
                Resolves(EffectiveListeners[k].routes[j])

\* C20: a configuration in which two effective listeners resolve to the same
\* host:port pair fails to load: in every loaded configuration the bind
\* addresses of the listeners are pairwise distinct.
C20_LoadedAddressesDistinct ==
    Loaded =>
        \A k, l \in 1..Len(EffectiveListeners) :
            k # l => <<EffectiveListeners[k].host, EffectiveListeners[k].port>>
                       # <<EffectiveListeners[l].host, EffectiveListeners[l].port>>

\* Every pool a route names exists.
PoolRefsExist ==
    \A i \in 1..Len(config.routes) :
        config.routes[i].api_key_pool.some
            => config.routes[i].api_key_pool.val \in DOMAIN config.api_key_pools

\* Every pool has a key with enabled = true.
PoolsHaveEnabledKey ==
    \A n \in DOMAIN config.api_key_pools :
        \E k \in 1..Len(config.api_key_pools[n].keys) : config.api_key_pools[n].keys[k].enabled

\* C21: in every loaded configuration every route's api_key_pool, when set,
\* names a pool that exists and every pool has a key with enabled = true; a
\* configuration that breaks either condition fails to load, so the selector
\* made for the pool of a route holds a key to return.
C21_LoadedPoolsUsable ==
    /\ Loaded => PoolRefsExist /\ PoolsHaveEnabledKey
    /\ (load_pc # "parsed" /\ ~(PoolRefsExist /\ PoolsHaveEnabledKey))
          => load_pc = "failed" /\ load_err \in {"unknown API key pool", "no enabled keys"}
    /\ \A k \in 1..Len(listeners) :
          \A i \in 1..Len(listeners[k].routes) :
              listeners[k].routes[i].api_key_pool.some
                  => SelectorKeys(config.api_key_pools[listeners[k].routes[i].api_key_pool.val].keys)
                       # <<>>

\* A configuration whose route names a pool with one enabled and one disabled
\* key is loaded and its listeners are built.
C21_Witness ==
    /\ load_pc = "listening"
    /\ config.routes[1].api_key_pool = Some("pa")
    /\ config.api_key_pools["pa"].keys[1].enabled
    /\ ~config.api_key_pools["pa"].keys[2].enabled
    /\ Len(listeners) = 2
    /\ listeners[1].routes # <<>>

\* The route is named by an entry of the reference list.
Referenced(r, refs) ==
    \E j \in 1..Len(refs) : refs[j] = r.path \/ r.name = Some(refs[j])

\* The routes a listener is to serve: the defined routes, in definition order,
\* that are enabled and, when the list is not empty, referenced.
ListenerRoutes(refs) ==
    SelectSeq(config.routes, LAMBDA r : r.enabled /\ (refs = <<>> \/ Referenced(r, refs)))

\* C22: for a listener with an empty routes list routes_for returns every
\* enabled route in definition order; for a non-empty list it returns exactly
\* the enabled routes whose name or path appears in the list, in definition
\* order whatever the order of the list; a listener is built with no disabled
\* route and no route outside that set.
C22_RoutesForListener ==
    load_pc = "listening" =>
        /\ Len(listeners) = Len(EffectiveListeners)
        /\ \A k \in 1..Len(listeners) :
              /\ listeners[k].routes = ListenerRoutes(EffectiveListeners[k].routes)
              /\ \A i \in 1..Len(listeners[k].routes) : listeners[k].routes[i].enabled

\* One listener names the two routes against their definition order and
\* serves them in definition order; the other names none and serves all.
C22_Witness ==
    /\ load_pc = "listening"
    /\ Len(config.servers) = 2
    /\ config.servers[1].routes = <<<<"/", "b">>, <<"r1">>>>
    /\ Len(listeners[1].routes) = 2
    /\ listeners[1].routes[1].name = Some(<<"r1">>)
    /\ config.servers[2].routes = <<>>
    /\ listeners[2].routes = listeners[1].routes

====
